---- MODULE Spec2Model ----
(***************************************************************************)
(* A model of the market scanner's scoring and ranking pipeline:           *)
(*   scoring/benchmark.py  BTCBenchmark (TTL cache, expected return)       *)
(*   signals/*.py          IgnitionEngine, PressureEngine, FuelEngine      *)
(*   scoring/composite.py  CompositeScorer (score, gate, filter, rank)     *)
(*                                                                         *)
(* Fixed-point units used throughout (the code works in floats):           *)
(*   time            whole seconds                                         *)
(*   returns         1e-4 (200 is 0.02, i.e. 2%)                           *)
(*   probabilities   1e-3 (990 is 0.99)                                    *)
(*   prices          tenths of a dollar (1500 is $150.00)                  *)
(*   engine scores   1e-3 point (100000 is 100 points)                     *)
(*   total_score     1e-5 point (10000000 is 100 points)                   *)
(*   distances       1e-5 (15000 is 0.15)                                  *)
(*   ratios          1e-2 (150 is 1.5)                                     *)
(***************************************************************************)
EXTENDS Integers, Sequences, FiniteSets, TLC

VARIABLES
    now,        \* datetime.now(), in seconds since the process started
    cache,      \* BTCBenchmark.cache: timeframe -> NoEntry or (time, value)
    call,       \* record of the last BTCBenchmark method call (history)
    ticks,      \* how many times the clock has advanced (bounds the model)
    input,      \* the arguments the engines and the scorer are applied to
    out         \* what the last engine or scorer operation returned

vars == <<now, cache, call, ticks, input, out>>
bvars == <<now, cache, call, ticks>>

(***************************************************************************)
(* Bounds of the model                                                     *)
(***************************************************************************)
MaxTicks == 4              \* the clock advances at most this many times

(***************************************************************************)
(* scoring/benchmark.py                                                    *)
(***************************************************************************)
cache_duration == 300      \* benchmark.py:18
DefaultReturn == 200       \* benchmark.py:34, 46, 76: 0.02
MinExpectation == 100      \* benchmark.py:100: 0.01
SecondsPerDay == 86400     \* datetime.timedelta: .seconds is in 0..86399

\* A timeframe string "<num><unit>", kept as its two parts.
TF(n, u) == [num |-> n, unit |-> u]
Timeframes == {TF(1, "h"), TF(4, "h"), TF(1, "d")}      \* config.py:40

NoEntry == [time |-> -1, value |-> -1]

Abs(x) == IF x < 0 THEN -x ELSE x
Min(a, b) == IF a <= b THEN a ELSE b
Max(a, b) == IF a >= b THEN a ELSE b

\* floor(sqrt(x)) for x >= 0
RECURSIVE SqrtSearch(_, _, _)
SqrtSearch(x, lo, hi) ==
    IF lo >= hi THEN lo
    ELSE LET mid == (lo + hi + 1) \div 2
         IN IF mid * mid <= x THEN SqrtSearch(x, mid, hi)
            ELSE SqrtSearch(x, lo, mid - 1)
ISqrt(x) == SqrtSearch(x, 0, Min(x, 46340))

\* _get_periods_for_timeframe: "h" -> the number, "m" -> 1, "d" -> days * 24
GetPeriodsForTimeframe(tf) ==
    IF tf.unit = "h" THEN tf.num
    ELSE IF tf.unit = "m" THEN 1
    ELSE IF tf.unit = "d" THEN tf.num * 24
    ELSE 1

\* _get_max_expectation_for_timeframe
GetMaxExpectationForTimeframe(tf) ==
    LET periods == GetPeriodsForTimeframe(tf)
    IN IF periods <= 1 THEN 500
       ELSE IF periods <= 2 THEN 800
       ELSE IF periods <= 4 THEN 1200
       ELSE 2000

\* The fetched hourly history, reduced to what _calculate_expected_return reads:
\* its length, the mean of the last `periods` returns (momentum, 1e-4) and the
\* standard deviation of the last 4*periods returns (vol, 1e-4).
History(n, m, v) == [kind |-> "frame", len |-> n, momentum |-> m, vol |-> v]

\* _calculate_expected_return without the floor of line 100
CalculateExpectedReturn_noFloor(data, tf) ==
    LET periods == GetPeriodsForTimeframe(tf)
        base_expectation == data.momentum * periods
        volatility_expectation == ISqrt(data.vol * data.vol * periods)
        conservative == Min(Abs(base_expectation), volatility_expectation)
        directional == IF 2 * Abs(data.momentum) > data.vol
                       THEN Abs(base_expectation) ELSE conservative
    IN IF data.len < periods * 2 THEN DefaultReturn
       ELSE Min(directional, GetMaxExpectationForTimeframe(tf))

\* _calculate_expected_return without the ceiling of lines 103-104
CalculateExpectedReturn_noCeiling(data, tf) ==
    LET periods == GetPeriodsForTimeframe(tf)
        base_expectation == data.momentum * periods
        volatility_expectation == ISqrt(data.vol * data.vol * periods)
        conservative == Min(Abs(base_expectation), volatility_expectation)
        directional == IF 2 * Abs(data.momentum) > data.vol
                       THEN Abs(base_expectation) ELSE conservative
    IN IF data.len < periods * 2 THEN DefaultReturn
       ELSE Max(directional, MinExpectation)

\* _calculate_expected_return
CalculateExpectedReturn(data, tf) ==
    LET periods == GetPeriodsForTimeframe(tf)
        base_expectation == data.momentum * periods
        \* recent_vol * sqrt(periods)
        volatility_expectation == ISqrt(data.vol * data.vol * periods)
        conservative == Min(Abs(base_expectation), volatility_expectation)
        directional ==
            IF 2 * Abs(data.momentum) > data.vol
            THEN Abs(base_expectation) ELSE conservative
        floored == Max(directional, MinExpectation)
    IN IF data.len < periods * 2 THEN DefaultReturn
       ELSE Min(floored, GetMaxExpectationForTimeframe(tf))

\* (datetime.now() - cached_time).seconds: timedelta keeps days and seconds
\* apart, and .seconds is only the seconds part of the difference.
TimedeltaSeconds(t, cached_time) == (t - cached_time) % SecondsPerDay

\* IsFresh with the window one second short
IsFresh_short(t, cached_time) ==
    TimedeltaSeconds(t, cached_time) < cache_duration - 1

\* The freshness test of get_expected_return and get_benchmark_summary
IsFresh(t, cached_time) == TimedeltaSeconds(t, cached_time) < cache_duration

\* lines 25-28: the entry served from the cache, if any
CacheHit(c, tf, t) == c[tf] # NoEntry /\ IsFresh(t, c[tf].time)

\* What yfinance's Ticker.history can do, as _fetch_btc_data sees it:
\* raise, return an empty frame, or return a frame of hourly rows.
Histories ==
    { History(168, 20, 100), History(168, 700, 100), History(168, 0, 0),
      History(1, 0, 0) }
Raises == [kind |-> "raises", len |-> 0, momentum |-> 0, vol |-> 0]
Empty == [kind |-> "empty", len |-> 0, momentum |-> 0, vol |-> 0]
NoFetch == [kind |-> "no fetch", len |-> 0, momentum |-> 0, vol |-> 0]
None == [kind |-> "None", len |-> 0, momentum |-> 0, vol |-> 0]
FetchOutcomes == {Raises, Empty} \cup Histories

\* _fetch_btc_data (lines 48-64): None when the download raises or the frame
\* is empty, otherwise the pandas DataFrame.
FetchBtcData(outcome) ==
    IF outcome.kind \in {"raises", "empty"} THEN None ELSE outcome

\* `not btc_data` (line 33).  None is falsy.  A pandas DataFrame has no truth
\* value: DataFrame.__bool__ raises ValueError ("The truth value of a
\* DataFrame is ambiguous"), whatever the frame holds.
NotBtcData(btc_data) ==
    IF btc_data = None THEN "True" ELSE "ValueError"

\* AfterMiss caching the default it returns
AfterMiss_cachesDefault(c, tf, btc_data, t) ==
    [ret |-> DefaultReturn,
     cache |-> [c EXCEPT ![tf] = [time |-> t, value |-> DefaultReturn]]]

\* AfterMiss with `btc_data is None` as the test of line 33
AfterMiss_isNone(c, tf, btc_data, t) ==
    IF btc_data = None THEN [ret |-> DefaultReturn, cache |-> c]
    ELSE [ret |-> CalculateExpectedReturn(btc_data, tf),
          cache |-> [c EXCEPT ![tf] =
                        [time |-> t,
                         value |-> CalculateExpectedReturn(btc_data, tf)]]]

\* Lines 30-46 of get_expected_return, after a cache miss: the value returned
\* and the cache left behind.  t is datetime.now() at line 40.
AfterMiss(c, tf, btc_data, t) ==
    LET truth == NotBtcData(btc_data)
    IN IF truth = "True"
       THEN [ret |-> DefaultReturn, cache |-> c]                 \* line 34
       ELSE IF truth = "ValueError"
       THEN [ret |-> DefaultReturn, cache |-> c]                 \* lines 44-46
       ELSE LET expected_return == CalculateExpectedReturn(btc_data, tf)
            IN [ret |-> expected_return,
                cache |-> [c EXCEPT ![tf] =
                              [time |-> t, value |-> expected_return]]]

\* get_expected_return as a function of the object's state and the world:
\* the value returned, the cache afterwards, whether a fetch was made and the
\* clock when it returns.  It has no suspension point that yields to the
\* event loop (_fetch_btc_data awaits nothing), so it runs as one step.
GetExpectedReturnResult(c, t, tf, outcome, dur) ==
    IF CacheHit(c, tf, t)
    THEN [ret |-> c[tf].value, cache |-> c, fetched |-> FALSE, now |-> t]
    ELSE LET r == AfterMiss(c, tf, FetchBtcData(outcome), t + dur)
         IN [ret |-> r.ret, cache |-> r.cache, fetched |-> TRUE, now |-> t + dur]

NoCall == [op |-> "none", tf |-> TF(0, ""), at |-> 0, outcome |-> NoFetch,
           fetched |-> FALSE, ret |-> 0, before |-> << >>]

\* BTCBenchmark.get_expected_return(timeframe)
GetExpectedReturn(tf, outcome, dur) ==
    LET r == GetExpectedReturnResult(cache, now, tf, outcome, dur)
    IN /\ r.now # now => ticks < MaxTicks
       /\ ticks' = IF r.now # now THEN ticks + 1 ELSE ticks
       /\ cache' = r.cache
       /\ now' = r.now
       /\ call' = [op |-> "get_expected_return", tf |-> tf, at |-> now,
                   outcome |-> IF r.fetched THEN outcome ELSE NoFetch,
                   fetched |-> r.fetched, ret |-> r.ret, before |-> cache]
       /\ UNCHANGED <<input, out>>

\* BTCBenchmark.get_benchmark_summary(timeframe): the cached value if one is
\* served, otherwise the "fetching..." text; it never fetches.
GetBenchmarkSummaryResult(c, t, tf) ==
    IF CacheHit(c, tf, t)
    THEN c[tf].value          \* "BTC <tf> benchmark: <value>"
    ELSE -1                   \* "BTC <tf> benchmark: fetching..."

GetBenchmarkSummary(tf) ==
    /\ call' = [op |-> "get_benchmark_summary", tf |-> tf, at |-> now,
                outcome |-> NoFetch, fetched |-> FALSE,
                ret |-> GetBenchmarkSummaryResult(cache, now, tf),
                before |-> cache]
    /\ UNCHANGED <<now, cache, ticks, input, out>>

\* Time passes between calls.
ClockSteps == {1, 299, 86400}
FetchSeconds == {0, 1}
Tick(d) ==
    /\ ticks < MaxTicks
    /\ ticks' = ticks + 1
    /\ now' = now + d
    /\ UNCHANGED <<cache, call, input, out>>

NoInput == [op |-> "none"]
NotRun == [op |-> "none"]

\* BTCBenchmark.__init__
InitBenchmark ==
    /\ now = 0
    /\ cache = [tf \in Timeframes |-> NoEntry]                  \* line 17
    /\ call = NoCall
    /\ ticks = 0

Init ==
    /\ InitBenchmark
    /\ input = NoInput
    /\ out = NotRun

Next ==
    \/ \E tf \in Timeframes, o \in FetchOutcomes, dur \in FetchSeconds :
            GetExpectedReturn(tf, o, dur)
    \/ \E tf \in Timeframes : GetBenchmarkSummary(tf)
    \/ \E d \in ClockSteps : Tick(d)

Spec == Init /\ [][Next]_vars

\* The lookup of lines 22-28 and 173-177 from any cache contents: the cache is
\* a plain dict attribute, and here it starts holding any entries stored at
\* time 0.
StoredEntries == { [time |-> 0, value |-> 150] }
InitCacheLookup ==
    /\ now = 0
    /\ cache \in [Timeframes -> {NoEntry} \cup StoredEntries]
    /\ call = NoCall
    /\ ticks = 0
    /\ input = NoInput
    /\ out = NotRun

SpecCacheLookup == InitCacheLookup /\ [][Next]_vars

(***************************************************************************)
(* Claims about BTCBenchmark                                               *)
(***************************************************************************)
IsGet == call.op = "get_expected_return"
IsSummary == call.op = "get_benchmark_summary"
EntryBefore == call.before[call.tf]
AgeAtCall == call.at - EntryBefore.time

\* C1: a get_expected_return(tf) made less than 300 s after the entry for tf
\* was stored returns the stored value, makes no history fetch and leaves the
\* cache as it was.
C1_CacheHitWithinTtl ==
    (IsGet /\ EntryBefore # NoEntry /\ AgeAtCall >= 0
           /\ AgeAtCall < cache_duration)
        => /\ call.ret = EntryBefore.value
           /\ ~call.fetched
           /\ cache = call.before

C1_Witness ==
    /\ IsGet /\ EntryBefore # NoEntry
    /\ AgeAtCall = 299
    /\ ~call.fetched

\* C2: an entry whose age is 300 s or more, however large, is never served:
\* get_expected_return fetches afresh and get_benchmark_summary does not
\* report the stored value.
C2_NeverServedAfterExpiry ==
    ((IsGet \/ IsSummary) /\ EntryBefore # NoEntry
                          /\ AgeAtCall >= cache_duration)
        => /\ IsGet => call.fetched
           /\ IsSummary => call.ret = -1

\* C3: when the fetch raises or returns no data, or an exception occurs on
\* the way, get_expected_return returns 0.02 and leaves the cache unchanged,
\* so a call for the same timeframe at that moment would fetch again.
FailedFetch ==
    /\ IsGet /\ call.fetched
    /\ \/ call.outcome.kind \in {"raises", "empty"}
       \/ NotBtcData(FetchBtcData(call.outcome)) = "ValueError"

C3_FailureReturnsDefault ==
    FailedFetch
        => /\ call.ret = DefaultReturn
           /\ cache = call.before
           /\ ~CacheHit(cache, call.tf, call.at)

C3_Witness == FailedFetch /\ call.outcome.kind = "raises"

\* C4: on a cache miss where the fetch returns a non-empty history,
\* get_expected_return returns _calculate_expected_return's value and leaves
\* (now, that value) in the cache under the timeframe.
C4_SuccessIsCached ==
    (IsGet /\ call.fetched /\ call.outcome.kind = "frame")
        => /\ call.ret = CalculateExpectedReturn(call.outcome, call.tf)
           /\ cache[call.tf] # NoEntry
           /\ cache[call.tf].value = call.ret
           /\ cache[call.tf].time >= call.at

(***************************************************************************)
(* utils.py: MarketData                                                    *)
(***************************************************************************)
MarketData(sym, price, volume, high, low, open) ==
    [symbol |-> sym, price |-> price, volume |-> volume,
     high |-> high, low |-> low, open |-> open]

(***************************************************************************)
(* signals/ignition.py                                                     *)
(***************************************************************************)
MAX_DISTANCE_FROM_HOD_LOD == 20000     \* config.py:33: 0.20
PointsCap == 100000                    \* min(100, score) of the three engines

\* What the pandas/numpy numerics of analyze (lines 31-42) yield for the
\* historical series: the regression slope of the VWAP spread (1e-4), the band
\* expansion ratio (1e-2), or an exception raised on the way.
HistoryStats(slope, ratio, fails) ==
    [vwap_slope |-> slope, expansion_ratio |-> ratio, fails |-> fails]

NeutralIgnition ==
    [vwap_momentum |-> FALSE, expansion_energy |-> FALSE,
     entry_timing |-> FALSE, vwap_spread_slope |-> 0,
     band_expansion_ratio |-> 100, distance_from_extremes |-> 100000,
     score |-> 0]

\* _calculate_ignition_score
CalculateIgnitionScore(vwap_slope, expansion_ratio, distance_from_extremes, vwap_momentum, expansion_energy, entry_timing) ==
    LET momentum_part ==
            IF vwap_momentum THEN Min(40000, Abs(vwap_slope) * 1000) ELSE 0
        expansion_part ==
            IF expansion_energy
            THEN Min(35000, (expansion_ratio - 100) * 350) ELSE 0
        \* timing_score * 25, timing_score = (0.20 - distance) / 0.20
        timing_part ==
            IF entry_timing
            THEN ((MAX_DISTANCE_FROM_HOD_LOD - distance_from_extremes) * 25000)
                     \div MAX_DISTANCE_FROM_HOD_LOD
            ELSE 0
    IN Min(PointsCap, momentum_part + expansion_part + timing_part)

\* IgnitionEngine.analyze: a zero price divides by zero at line 46; that and
\* any failure of the numerics is caught and gives the neutral signal.
IgnitionAnalyze(md, hist) ==
    IF hist.fails \/ md.price = 0 THEN NeutralIgnition
    ELSE LET distance_from_extremes ==
                 (Min(Abs(md.price - md.high), Abs(md.price - md.low)) * 100000)
                     \div md.price
             vwap_momentum == hist.vwap_slope > 10              \* > 0.001
             expansion_energy == hist.expansion_ratio > 150     \* > 1.5
             entry_timing == distance_from_extremes < MAX_DISTANCE_FROM_HOD_LOD
         IN [vwap_momentum |-> vwap_momentum,
             expansion_energy |-> expansion_energy,
             entry_timing |-> entry_timing,
             vwap_spread_slope |-> hist.vwap_slope,
             band_expansion_ratio |-> hist.expansion_ratio,
             distance_from_extremes |-> distance_from_extremes,
             score |-> CalculateIgnitionScore(
                           hist.vwap_slope, hist.expansion_ratio,
                           distance_from_extremes, vwap_momentum,
                           expansion_energy, entry_timing)]

(***************************************************************************)
(* signals/fuel.py                                                         *)
(***************************************************************************)
MAX_FLOAT_SIZE == 20000        \* config.py:36, thousands of shares
MIN_VOLUME_MULTIPLE == 200     \* config.py:22: 2.0

\* FundamentalData: float in thousands of shares, percentages as integers;
\* valid is FALSE for a record whose fields cannot be compared (analyze
\* raises on it).
FundamentalData(float, short, borrow, avg, insider, valid) ==
    [float_shares |-> float, short_percent |-> short, borrow_fee |-> borrow,
     avg_volume |-> avg, insider_ownership |-> insider, valid |-> valid]

NeutralFuel ==
    [low_float |-> FALSE, high_short_interest |-> FALSE,
     high_borrow_cost |-> FALSE, volume_surge |-> FALSE,
     relative_volume |-> 100, short_squeeze_score |-> 0, score |-> 0]

\* _calculate_squeeze_score with `<=` in the float comparisons of lines
\* 119-124
SqueezePoints_inclusiveFloat(fd, relative_volume) ==
    LET float_tier == IF fd.float_shares <= 5000 THEN 30
                      ELSE IF fd.float_shares <= 10000 THEN 25
                      ELSE IF fd.float_shares <= 20000 THEN 15 ELSE 0
        short_tier == IF fd.short_percent > 30 THEN 25
                      ELSE IF fd.short_percent > 20 THEN 20
                      ELSE IF fd.short_percent > 15 THEN 10 ELSE 0
        borrow_tier == IF fd.borrow_fee > 100 THEN 20
                       ELSE IF fd.borrow_fee > 50 THEN 15
                       ELSE IF fd.borrow_fee > 25 THEN 5 ELSE 0
        volume_tier == IF relative_volume > 500 THEN 15
                       ELSE IF relative_volume > 300 THEN 10
                       ELSE IF relative_volume > 200 THEN 5 ELSE 0
        insider_tier == IF fd.insider_ownership > 40 THEN 10
                        ELSE IF fd.insider_ownership > 30 THEN 5 ELSE 0
    IN Min(100, float_tier + short_tier + borrow_tier + volume_tier
                    + insider_tier)

\* _calculate_squeeze_score, in points
SqueezePoints(fd, relative_volume) ==
    LET float_tier == IF fd.float_shares < 5000 THEN 30
                      ELSE IF fd.float_shares < 10000 THEN 25
                      ELSE IF fd.float_shares < 20000 THEN 15 ELSE 0
        short_tier == IF fd.short_percent > 30 THEN 25
                      ELSE IF fd.short_percent > 20 THEN 20
                      ELSE IF fd.short_percent > 15 THEN 10 ELSE 0
        borrow_tier == IF fd.borrow_fee > 100 THEN 20
                       ELSE IF fd.borrow_fee > 50 THEN 15
                       ELSE IF fd.borrow_fee > 25 THEN 5 ELSE 0
        volume_tier == IF relative_volume > 500 THEN 15
                       ELSE IF relative_volume > 300 THEN 10
                       ELSE IF relative_volume > 200 THEN 5 ELSE 0
        insider_tier == IF fd.insider_ownership > 40 THEN 10
                        ELSE IF fd.insider_ownership > 30 THEN 5 ELSE 0
    IN Min(100, float_tier + short_tier + borrow_tier + volume_tier
                    + insider_tier)

CalculateSqueezeScore(fd, relative_volume) ==
    SqueezePoints(fd, relative_volume) * 1000

\* _calculate_fuel_score
CalculateFuelScore(low_float, high_short_interest, high_borrow_cost, volume_surge, relative_volume, squeeze_score) ==
    LET float_part == IF low_float THEN 25000 ELSE 0
        short_part == IF high_short_interest THEN 25000 ELSE 0
        borrow_part == IF high_borrow_cost THEN 20000 ELSE 0
        \* min(20, (relative_volume - 2) * 5)
        volume_part == IF volume_surge
                       THEN Min(20000, (relative_volume - 200) * 50) ELSE 0
        squeeze_part == Min(10000, squeeze_score \div 10)
    IN Min(PointsCap, float_part + short_part + borrow_part + volume_part
                          + squeeze_part)

\* FuelEngine.analyze
FuelAnalyze(md, fd) ==
    IF ~fd.valid THEN NeutralFuel
    ELSE LET low_float == fd.float_shares < MAX_FLOAT_SIZE
             high_short_interest == fd.short_percent > 15
             high_borrow_cost == fd.borrow_fee > 50
             relative_volume ==
                 IF fd.avg_volume > 0
                 THEN (md.volume * 100) \div fd.avg_volume ELSE 100
             volume_surge == relative_volume > MIN_VOLUME_MULTIPLE
             squeeze_score == CalculateSqueezeScore(fd, relative_volume)
         IN [low_float |-> low_float,
             high_short_interest |-> high_short_interest,
             high_borrow_cost |-> high_borrow_cost,
             volume_surge |-> volume_surge,
             relative_volume |-> relative_volume,
             short_squeeze_score |-> squeeze_score,
             score |-> CalculateFuelScore(
                           low_float, high_short_interest, high_borrow_cost,
                           volume_surge, relative_volume, squeeze_score)]

(***************************************************************************)
(* Numerics used by signals/pressure.py.  numpy's exp and log and scipy's  *)
(* norm.cdf are evaluated on integers: exp and the normal distribution by  *)
(* linear interpolation in a table of their values, the logarithm of a     *)
(* ratio near one by ln(a/b) ~ 2(a-b)/(a+b).                                *)
(***************************************************************************)
Interpolate(knots, x) ==
    IF x <= knots[1][1] THEN knots[1][2]
    ELSE IF x >= knots[Len(knots)][1] THEN knots[Len(knots)][2]
    ELSE LET i == CHOOSE k \in 1..(Len(knots) - 1) :
                      knots[k][1] <= x /\ x < knots[k + 1][1]
             x0 == knots[i][1]
             y0 == knots[i][2]
             x1 == knots[i + 1][1]
             y1 == knots[i + 1][2]
         IN y0 + ((y1 - y0) * (x - x0)) \div (x1 - x0)

\* exp(-x): x and the value in 1e-3
ExpKnots ==
    << <<0, 1000>>, <<50, 951>>, <<100, 905>>, <<200, 819>>, <<300, 741>>,
       <<500, 607>>, <<750, 472>>, <<1000, 368>>, <<1500, 223>>,
       <<2000, 135>>, <<3000, 50>>, <<5000, 7>>, <<8000, 0>> >>

ExpNeg(x) == Interpolate(ExpKnots, x)

\* norm.cdf(x) for x >= 0: x and the value in 1e-3
CdfKnots ==
    << <<0, 500>>, <<100, 540>>, <<200, 579>>, <<300, 618>>, <<400, 655>>,
       <<500, 691>>, <<600, 726>>, <<700, 758>>, <<800, 788>>, <<900, 816>>,
       <<1000, 841>>, <<1200, 885>>, <<1400, 919>>, <<1600, 945>>,
       <<1800, 964>>, <<2000, 977>>, <<2326, 990>>, <<2600, 995>>,
       <<3000, 999>>, <<3500, 1000>> >>

NormCdf(x) ==
    IF x >= 0 THEN Interpolate(CdfKnots, x)
    ELSE 1000 - Interpolate(CdfKnots, -x)

\* np.log(a / b) in 1e-5, kept within +-1.0
LogRatio(a, b) == Max(-100000, Min(100000, (200000 * (a - b)) \div (a + b)))

\* the value norm.cdf saturates at: d2 = +-inf when avg_iv is 0
D2Inf == 10000

(***************************************************************************)
(* signals/pressure.py                                                     *)
(***************************************************************************)
\* One strike of an OptionsData: the strike (tenths of a dollar), the open
\* interest and volume of calls and puts, the implied volatility (1e-3).
OptionRow(strike, calls_oi, puts_oi, calls_volume, puts_volume, iv) ==
    [strike |-> strike, calls_oi |-> calls_oi, puts_oi |-> puts_oi,
     calls_volume |-> calls_volume, puts_volume |-> puts_volume, iv |-> iv]

RECURSIVE SumOf(_, _)
SumOf(rows, field) ==
    IF rows = << >> THEN 0 ELSE Head(rows)[field] + SumOf(Tail(rows), field)

\* np.mean(list(options_data.iv.values()))
AvgIv(options_data) == SumOf(options_data, "iv") \div Len(options_data)

\* d2 of line 260 in 1e-3, with time_to_expiry = 1/365:
\* 1/sqrt(1/365) = 19.105 and 0.5 * iv^2 / 365 = iv^2 / 730
D2(current_price, target_strike, avg_iv) ==
    LET numerator == LogRatio(current_price, target_strike)
                         - (avg_iv * avg_iv) \div 7300
    IN IF avg_iv = 0
       THEN IF numerator < 0 THEN -D2Inf ELSE D2Inf
       ELSE Max(-D2Inf, Min(D2Inf, (numerator * 19105) \div (100 * avg_iv)))

\* _calculate_probability_reach (1e-3)
CalculateProbabilityReach(current_price, target_strike, options_data) ==
    IF target_strike = current_price THEN 1000
    ELSE LET d2 == D2(current_price, target_strike, AvgIv(options_data))
             probability == IF target_strike > current_price
                            THEN 1000 - NormCdf(d2) ELSE NormCdf(d2)
         IN Max(10, Min(990, probability))

\* sorted(..., key=..., reverse=True): stable, descending.  The elements are
\* records with a field "key".
RECURSIVE InsertDescending_unstable(_, _)
InsertDescending_unstable(sorted, e) ==
    IF sorted = << >> THEN <<e>>
    ELSE IF Head(sorted).key > e.key
         THEN <<Head(sorted)>> \o InsertDescending_unstable(Tail(sorted), e)
         ELSE <<e>> \o sorted

RECURSIVE InsertDescending(_, _)
InsertDescending(sorted, e) ==
    IF sorted = << >> THEN <<e>>
    ELSE IF Head(sorted).key >= e.key
         THEN <<Head(sorted)>> \o InsertDescending(Tail(sorted), e)
         ELSE <<e>> \o sorted

RECURSIVE SortedDescending(_)
SortedDescending(keyed) ==
    IF keyed = << >> THEN << >>
    ELSE InsertDescending(SortedDescending(SubSeq(keyed, 1, Len(keyed) - 1)),
                          keyed[Len(keyed)])

\* GammaWall of one strike; gamma values in 1e-3, distance in 1e-5
GammaWallAt(current_price, row, options_data) ==
    LET distance == (Abs(row.strike - current_price) * 100000)
                        \div current_price
        gamma_factor == ExpNeg((distance * 5) \div 100)
        net_gamma == row.calls_oi * gamma_factor - row.puts_oi * gamma_factor
    IN [strike |-> row.strike,
        gamma_value |-> Abs(net_gamma),
        key |-> Abs(net_gamma),
        net_positioning |-> net_gamma,
        distance_from_price |-> distance,
        probability_reach |->
            CalculateProbabilityReach(current_price, row.strike, options_data)]

\* _find_gamma_walls
FindGammaWalls(md, options_data) ==
    LET all == [i \in 1..Len(options_data) |->
                    GammaWallAt(md.price, options_data[i], options_data)]
        walls == SelectSeq(all, LAMBDA w : w.gamma_value > 1000000)
    IN SortedDescending(walls)

\* probability_reach * gamma_value, in the unit of gamma_value
WallAttraction(w) ==
    w.probability_reach * (w.gamma_value \div 1000)
        + (w.probability_reach * (w.gamma_value % 1000)) \div 1000

NoWall ==
    [strike |-> -1, gamma_value |-> 0, key |-> 0, net_positioning |-> 0,
     distance_from_price |-> 0, probability_reach |-> 0]

\* _find_target_wall; max() returns the first of the maximal candidates
FindTargetWall(current_price, walls) ==
    IF walls = << >> THEN NoWall
    ELSE LET candidates ==
                 SelectSeq(walls, LAMBDA w : w.distance_from_price < 15000
                                             /\ w.probability_reach > 300)
         IN IF candidates = << >> THEN walls[1]
            ELSE LET best == CHOOSE i \in 1..Len(candidates) :
                          /\ \A j \in 1..Len(candidates) :
                                 WallAttraction(candidates[j])
                                     <= WallAttraction(candidates[i])
                          /\ \A j \in 1..(i - 1) :
                                 WallAttraction(candidates[j])
                                     < WallAttraction(candidates[i])
                 IN candidates[best]

\* _calculate_max_pain: the first strike of minimal total pain
TotalPain(current_price, row) ==
    (IF current_price > row.strike
     THEN row.calls_oi * (current_price - row.strike) ELSE 0)
    + (IF current_price < row.strike
       THEN row.puts_oi * (row.strike - current_price) ELSE 0)

CalculateMaxPain(current_price, options_data) ==
    IF options_data = << >> THEN current_price
    ELSE LET n == Len(options_data)
             first == CHOOSE i \in 1..n :
                 /\ \A j \in 1..n : TotalPain(current_price, options_data[i])
                                      <= TotalPain(current_price, options_data[j])
                 /\ \A j \in 1..(i - 1) :
                        TotalPain(current_price, options_data[i])
                            < TotalPain(current_price, options_data[j])
         IN options_data[first].strike

\* float('inf') as a put/call ratio (1e-2)
Infinity == 1000000

\* _calculate_put_call_ratio (1e-2)
CalculatePutCallRatio(options_data) ==
    LET total_call_volume == SumOf(options_data, "calls_volume")
        total_put_volume == SumOf(options_data, "puts_volume")
    IN IF total_call_volume = 0
       THEN IF total_put_volume > 0 THEN Infinity ELSE 100
       ELSE (total_put_volume * 100) \div total_call_volume

\* _determine_dealer_flow
DetermineDealerFlow(walls, pcr, current_price, max_pain) ==
    IF walls = << >> THEN "neutral"
    ELSE LET strongest_wall == walls[1]
             bullish_score ==
                 (IF strongest_wall.net_positioning > 0
                     /\ strongest_wall.strike > current_price THEN 2 ELSE 0)
                 + (IF pcr < 80 THEN 1 ELSE 0)
                 + (IF max_pain > current_price THEN 1 ELSE 0)
             bearish_score ==
                 (IF strongest_wall.net_positioning < 0
                     /\ strongest_wall.strike < current_price THEN 2 ELSE 0)
                 + (IF pcr > 120 THEN 1 ELSE 0)
                 + (IF max_pain < current_price THEN 1 ELSE 0)
         IN IF bullish_score > bearish_score + 1 THEN "bullish"
            ELSE IF bearish_score > bullish_score + 1 THEN "bearish"
            ELSE "neutral"

\* _calculate_pressure_score
CalculatePressureScore(probability, dealer_flow, pcr, walls) ==
    LET probability_part == probability * 40
        flow_part == IF dealer_flow = "bullish" THEN 30000
                     ELSE IF dealer_flow = "bearish" THEN 20000 ELSE 0
        pcr_part == IF pcr < 70 THEN 20000
                    ELSE IF pcr < 100 THEN 15000
                    ELSE IF pcr > 150 THEN 10000 ELSE 0
        wall_part == IF walls # << >>
                     THEN Min(10000, walls[1].gamma_value \div 5000) ELSE 0
    IN Min(PointsCap, probability_part + flow_part + pcr_part + wall_part)

\* target_strike = None
NoTarget == -1

\* the signal of the except branch (lines 79-84)
NeutralPressure(md) ==
    [target_strike |-> NoTarget, probability_reach |-> 0,
     dealer_flow |-> "neutral", nearest_walls |-> << >>,
     max_pain |-> md.price, put_call_ratio |-> 100, score |-> 0]

\* What _generate_synthetic_options draws for a symbol: the strikes (by their
\* index i of price + i * 0.5) whose calls get twice and puts half the base
\* open interest, those with the opposite, the common multipliers of the call
\* and put volume (percent, 50..200) and the volatility noise (1e-3,
\* -100..100).  Every other open interest gets the multiplier 1.
OptionDraw(call_heavy, put_heavy, calls_volume, puts_volume, noise) ==
    [call_heavy |-> call_heavy, put_heavy |-> put_heavy,
     calls_volume |-> calls_volume, puts_volume |-> puts_volume,
     noise |-> noise]

SyntheticRow(current_price, i, draw) ==
    LET strike == current_price + 5 * i
        distance == (Abs(strike - current_price) * 100000) \div current_price
        base_volume == Max(10, ExpNeg(distance \div 10))
        base_oi == Max(50, 5 * ExpNeg((distance * 8) \div 100))
        calls_pct == IF i \in draw.call_heavy THEN 200
                     ELSE IF i \in draw.put_heavy THEN 50 ELSE 100
        puts_pct == IF i \in draw.call_heavy THEN 50
                    ELSE IF i \in draw.put_heavy THEN 200 ELSE 100
        base_iv == 300 + (2 * distance) \div 100
    IN OptionRow(strike,
                 (base_oi * calls_pct) \div 100,
                 (base_oi * puts_pct) \div 100,
                 (base_volume * draw.calls_volume) \div 100,
                 (base_volume * draw.puts_volume) \div 100,
                 Max(100, base_iv + draw.noise))

\* _generate_synthetic_options: strikes price + i * 0.5, i in -10..10, that
\* are positive
SyntheticOptions(md, draw) ==
    LET indices == SelectSeq([k \in 1..21 |-> k - 11],
                             LAMBDA i : md.price + 5 * i > 0)
    IN [k \in 1..Len(indices) |-> SyntheticRow(md.price, indices[k], draw)]

\* The try body of analyze for a given chain; a zero price divides by zero at
\* line 142 as soon as there is a strike.
PressureOf(md, options_data) ==
    IF md.price = 0 /\ options_data # << >> THEN NeutralPressure(md)
    ELSE LET gamma_walls == FindGammaWalls(md, options_data)
             target_wall == FindTargetWall(md.price, gamma_walls)
             max_pain == CalculateMaxPain(md.price, options_data)
             pcr == CalculatePutCallRatio(options_data)
             dealer_flow ==
                 DetermineDealerFlow(gamma_walls, pcr, md.price, max_pain)
             probability ==
                 IF target_wall # NoWall
                 THEN CalculateProbabilityReach(md.price, target_wall.strike,
                                                options_data)
                 ELSE 0
         IN [target_strike |-> IF target_wall # NoWall
                               THEN target_wall.strike ELSE NoTarget,
             probability_reach |-> probability,
             dealer_flow |-> dealer_flow,
             nearest_walls |-> SubSeq(gamma_walls, 1, Min(3, Len(gamma_walls))),
             max_pain |-> max_pain,
             put_call_ratio |-> pcr,
             score |-> CalculatePressureScore(probability, dealer_flow, pcr,
                                              gamma_walls)]

\* PressureEngine.analyze: options is a chain, or a draw of the synthetic
\* generator when the caller passes no options_data.  The generator divides
\* by the price at line 107.
PressureAnalyze(md, options) ==
    IF options.kind = "chain" THEN PressureOf(md, options.rows)
    ELSE IF md.price = 0 THEN NeutralPressure(md)
    ELSE PressureOf(md, SyntheticOptions(md, options.draw))

(***************************************************************************)
(* scoring/composite.py                                                    *)
(***************************************************************************)
VWAP_MOMENTUM_WEIGHT == 25       \* config.py:26
OPTIONS_PRESSURE_WEIGHT == 30    \* config.py:27
VOLUME_WEIGHT == 20              \* config.py:28
TotalCap == 10000000             \* min(100, ...) of total_score, in 1e-5

\* _calculate_combination_bonus with `if` in place of `elif` at line 120
CalculateCombinationBonus_bothConfirmations(ignition, pressure, fuel) ==
    LET strong_signals ==
            (IF ignition.score > 70000 THEN 1 ELSE 0)
            + (IF pressure.score > 70000 THEN 1 ELSE 0)
            + (IF fuel.score > 70000 THEN 1 ELSE 0)
    IN (IF strong_signals >= 3 THEN 15 ELSE 0)
       + (IF strong_signals >= 2 THEN 8 ELSE 0)
       + (IF ignition.vwap_momentum /\ pressure.probability_reach > 700
          THEN 5 ELSE 0)
       + (IF fuel.low_float /\ fuel.high_short_interest
             /\ pressure.dealer_flow = "bullish" THEN 8 ELSE 0)
       + (IF ignition.expansion_energy /\ fuel.volume_surge THEN 5 ELSE 0)

\* _calculate_combination_bonus, in points
CalculateCombinationBonus(ignition, pressure, fuel) ==
    LET strong_signals ==
            (IF ignition.score > 70000 THEN 1 ELSE 0)
            + (IF pressure.score > 70000 THEN 1 ELSE 0)
            + (IF fuel.score > 70000 THEN 1 ELSE 0)
        confirmation == IF strong_signals >= 3 THEN 15
                        ELSE IF strong_signals >= 2 THEN 8 ELSE 0
        momentum == IF ignition.vwap_momentum
                       /\ pressure.probability_reach > 700 THEN 5 ELSE 0
        squeeze == IF fuel.low_float /\ fuel.high_short_interest
                      /\ pressure.dealer_flow = "bullish" THEN 8 ELSE 0
        energy == IF ignition.expansion_energy /\ fuel.volume_surge
                  THEN 5 ELSE 0
    IN confirmation + momentum + squeeze + energy

\* weighted_score + bonus of lines 88-97, in 1e-5 point
WeightedPlusBonus(ignition, pressure, fuel) ==
    ignition.score * VWAP_MOMENTUM_WEIGHT
        + pressure.score * OPTIONS_PRESSURE_WEIGHT
        + fuel.score * VOLUME_WEIGHT
        + CalculateCombinationBonus(ignition, pressure, fuel) * 100000

CalculateWeightedScore_uncapped(ignition, pressure, fuel) ==
    WeightedPlusBonus(ignition, pressure, fuel)

\* _calculate_weighted_score
CalculateWeightedScore(ignition, pressure, fuel) ==
    Min(TotalCap, WeightedPlusBonus(ignition, pressure, fuel))

\* _estimate_price_move with a base of 0.5 and without the cap of line 183
EstimatePriceMove_uncappedHalf(md, fuel) ==
    LET base == 2000
        by_volume == IF fuel.relative_volume > 300 THEN (base * 15) \div 10
                     ELSE IF fuel.relative_volume > 200 THEN (base * 12) \div 10
                     ELSE base
        by_range == IF md.high > 0 /\ md.low > 0
                       /\ (md.high - md.low) * 100 > 15 * md.price
                    THEN (by_volume * 13) \div 10 ELSE by_volume
    IN IF fuel.short_squeeze_score > 80000 THEN by_range * 2
       ELSE IF fuel.short_squeeze_score > 60000 THEN (by_range * 15) \div 10
       ELSE by_range

\* _estimate_price_move, in 1/4000 (0.05 is 200); price is not zero where the
\* range is divided by it
EstimatePriceMove(md, fuel) ==
    LET base == 200
        by_volume == IF fuel.relative_volume > 300 THEN (base * 15) \div 10
                     ELSE IF fuel.relative_volume > 200 THEN (base * 12) \div 10
                     ELSE base
        by_range == IF md.high > 0 /\ md.low > 0
                       /\ (md.high - md.low) * 100 > 15 * md.price
                    THEN (by_volume * 13) \div 10 ELSE by_volume
        by_squeeze == IF fuel.short_squeeze_score > 80000 THEN by_range * 2
                      ELSE IF fuel.short_squeeze_score > 60000
                           THEN (by_range * 15) \div 10
                      ELSE by_range
    IN Min(2000, by_squeeze)

ExpectedReturnRaises_never(md, pressure) == FALSE

\* does _calculate_expected_return divide by a zero price?
ExpectedReturnRaises(md, pressure) ==
    md.price = 0
    /\ \/ pressure.target_strike > 0 /\ pressure.probability_reach > 500
       \/ md.high > 0 /\ md.low > 0

\* _calculate_expected_return without the probability test of line 142
ScorerCalculateExpectedReturn_anyProbability(md, pressure, fuel) ==
    LET multiplier == IF fuel.short_squeeze_score > 70000
                      THEN 200 + fuel.short_squeeze_score \div 1000 ELSE 200
        estimated_move == EstimatePriceMove(md, fuel)
    IN IF pressure.target_strike > 0
       THEN [num |-> (pressure.target_strike - md.price)
                         * pressure.probability_reach * multiplier,
             den |-> md.price * 20,
             target_price |-> pressure.target_strike * 1000]
       ELSE [num |-> estimated_move * pressure.probability_reach * multiplier,
             den |-> 80000,
             target_price |-> (md.price * (4000 + estimated_move)) \div 4]

\* _calculate_expected_return without the adjustment for probability
ScorerCalculateExpectedReturn_unadjusted(md, pressure, fuel) ==
    LET multiplier == IF fuel.short_squeeze_score > 70000
                      THEN 200 + fuel.short_squeeze_score \div 1000 ELSE 200
    IN [num |-> (pressure.target_strike - md.price) * 1000 * multiplier,
        den |-> md.price * 20,
        target_price |-> pressure.target_strike * 1000]

\* CompositeScorer._calculate_expected_return.  The return is the exact
\* fraction num/den of 1e-4; target_price is in 1e-4 dollar.
ScorerCalculateExpectedReturn(md, pressure, fuel) ==
    LET squeeze == fuel.short_squeeze_score \div 1000
        \* squeeze_multiplier, in 1/200
        multiplier == IF fuel.short_squeeze_score > 70000
                      THEN 200 + squeeze ELSE 200
        estimated_move == EstimatePriceMove(md, fuel)
    IN IF pressure.target_strike > 0 /\ pressure.probability_reach > 500
       THEN [num |-> (pressure.target_strike - md.price)
                         * pressure.probability_reach * multiplier,
             den |-> md.price * 20,
             target_price |-> pressure.target_strike * 1000]
       ELSE [num |-> estimated_move * pressure.probability_reach * multiplier,
             den |-> 80000,
             target_price |-> (md.price * (4000 + estimated_move)) \div 4]

\* expected_return > btc_return (line 58), btc_return in 1e-4
ExceedsBenchmark_orEqual(er, btc_return) == er.num >= btc_return * er.den

ExceedsBenchmark(er, btc_return) == er.num > btc_return * er.den

\* _calculate_risk_reward (1e-2): the stop is 5% below the entry, so the ratio
\* is expected_return / 0.05
CalculateRiskReward(current_price, er) ==
    IF er.target_price = 0 \/ er.target_price <= current_price * 1000 THEN 100
    ELSE er.num \div (5 * er.den)

\* the value of score_symbol when it catches an exception (line 81)
NoScore ==
    [returned |-> FALSE, symbol |-> "", total_score |-> 0,
     ignition_score |-> 0, pressure_score |-> 0, fuel_score |-> 0,
     btc_benchmark_passed |-> FALSE, expected_return |-> [num |-> 0, den |-> 1],
     btc_expected_return |-> 0, probability_reach |-> 0, target_price |-> 0,
     risk_reward_ratio |-> 0]

\* The CompositeScore score_symbol builds from the three signals and the
\* benchmark's answer (lines 46-77).
CompositeScoreOf(md, ignition, pressure, fuel, btc_return) ==
    IF ExpectedReturnRaises(md, pressure) THEN NoScore
    ELSE LET er == ScorerCalculateExpectedReturn(md, pressure, fuel)
         IN [returned |-> TRUE,
             symbol |-> md.symbol,
             total_score |-> CalculateWeightedScore(ignition, pressure, fuel),
             ignition_score |-> ignition.score,
             pressure_score |-> pressure.score,
             fuel_score |-> fuel.score,
             btc_benchmark_passed |-> ExceedsBenchmark(er, btc_return),
             expected_return |-> [num |-> er.num, den |-> er.den],
             btc_expected_return |-> btc_return,
             probability_reach |-> pressure.probability_reach,
             target_price |-> er.target_price,
             risk_reward_ratio |-> CalculateRiskReward(md.price, er)]

(***************************************************************************)
(* The engines and score_symbol on a snapshot.  input holds the snapshot   *)
(* and what each engine is given or draws; out holds what has been         *)
(* computed from it.                                                       *)
(***************************************************************************)
\* What _generate_synthetic_fundamentals draws: float (thousands, 5000..50000),
\* short percent (5..40), borrow fee (10..200), the multiplier of the volume
\* (percent, 50..200) and insider ownership (5..50).
FundamentalDraw(float, short, borrow, volume_pct, insider) ==
    [float_shares |-> float, short_percent |-> short, borrow_fee |-> borrow,
     volume_pct |-> volume_pct, insider_ownership |-> insider]

\* _generate_synthetic_fundamentals
SyntheticFundamentals(md, draw) ==
    FundamentalData(draw.float_shares, draw.short_percent, draw.borrow_fee,
                    (md.volume * draw.volume_pct) \div 100,
                    draw.insider_ownership, TRUE)

NoOptionDraw == OptionDraw({}, {}, 0, 0, 0)
GivenChain(rows) == [kind |-> "chain", rows |-> rows, draw |-> NoOptionDraw]
DrawnChain(draw) == [kind |-> "synthetic", rows |-> << >>, draw |-> draw]
NoFundamentalDraw == FundamentalDraw(0, 0, 0, 0, 0)
GivenFundamentals(fd) ==
    [kind |-> "data", data |-> fd, draw |-> NoFundamentalDraw]
DrawnFundamentals(draw) ==
    [kind |-> "synthetic",
     data |-> FundamentalData(0, 0, 0, 0, 0, FALSE), draw |-> draw]

\* fundamental_data as analyze sees it
FundamentalsOf(md, f) ==
    IF f.kind = "data" THEN f.data ELSE SyntheticFundamentals(md, f.draw)

Snapshots ==
    { MarketData("AAA", 500, 1000000, 520, 480, 490),
      MarketData("BBB", 200, 600000, 230, 195, 200),
      MarketData("CCC", 1500, 5000000, 1520, 1485, 1490),
      MarketData("TOP", 400, 3000000, 400, 380, 385),
      MarketData("FLAT", 100, 0, 100, 100, 100),
      MarketData("ZERO", 0, 0, 0, 0, 0),
      MarketData("ZHI", 0, 100, 10, 5, 0) }

Histories100 ==
    { HistoryStats(0, 100, FALSE), HistoryStats(25, 100, FALSE),
      HistoryStats(50, 220, FALSE), HistoryStats(5, 160, FALSE),
      HistoryStats(0, 100, TRUE) }

\* chains given to analyze, by the offset of each strike from the price
ChainShapes ==
    { << >>,
      << <<0, 3000, 500, 100, 50, 300>> >>,
      << <<5, 800, 200, 100, 100, 300>> >>,
      << <<-5, 500, 3000, 100, 200, 300>>, <<10, 60000, 0, 300, 0, 300>> >>,
      << <<10, 60000, 0, 300, 100, 0>> >>,
      << <<-40, 0, 9000, 0, 50, 400>>, <<60, 2600, 0, 0, 0, 400>> >>,
      << <<-3, 5000, 0, 50, 50, 2000>>, <<80, 0, 2000, 50, 50, 2000>> >> }

ChainOf(md, shape) ==
    [k \in 1..Len(shape) |->
        OptionRow(md.price + shape[k][1], shape[k][2], shape[k][3],
                  shape[k][4], shape[k][5], shape[k][6])]

\* the volatility noise (within -0.1..0.1) at which the strike 0.5 above a
\* price of 20 is reached with probability 0.8
IvNoise == 8

OptionDraws ==
    { OptionDraw({}, {}, 100, 100, 0),
      OptionDraw({0}, {}, 100, 100, 0),
      OptionDraw({1}, {}, 50, 200, 0),
      OptionDraw({1}, {}, 200, 50, IvNoise),
      OptionDraw({2, 3}, {-2}, 200, 50, -100),
      OptionDraw({}, {-1, -4}, 50, 200, 100),
      OptionDraw({6}, {}, 200, 100, 100) }

FundamentalsGiven ==
    { FundamentalData(3000, 35, 150, 100, 45, TRUE),
      FundamentalData(5000, 30, 100, 200000, 40, TRUE),
      FundamentalData(20000, 15, 50, 0, 30, TRUE),
      FundamentalData(60000, 2, 5, 1000000, 0, TRUE),
      FundamentalData(0, 0, 0, 0, 0, FALSE) }

FundamentalDraws ==
    { FundamentalDraw(5000, 35, 150, 50, 45),
      FundamentalDraw(5000, 35, 150, 200, 10),
      FundamentalDraw(12000, 25, 60, 100, 35),
      FundamentalDraw(30000, 10, 20, 100, 10),
      FundamentalDraw(50000, 40, 200, 50, 50) }

\* an input: the snapshot, the statistics of the price history, the options
\* (a chain by its shape, or a draw) and the fundamentals (given or drawn)
ScoringInput(md, hist, shape, option_draw, fundamentals) ==
    [md |-> md, hist |-> hist,
     options |-> IF option_draw = NoOptionDraw
                 THEN GivenChain(ChainOf(md, shape))
                 ELSE DrawnChain(option_draw),
     fundamentals |-> fundamentals]

\* every snapshot with every options input, and every snapshot with every
\* history and fundamentals input
ScoringInputs ==
    { ScoringInput(md, h, shape, NoOptionDraw, GivenFundamentals(fd)) :
          md \in Snapshots, h \in {HistoryStats(50, 220, FALSE)},
          shape \in ChainShapes, fd \in FundamentalsGiven }
    \cup
    { ScoringInput(md, h, << >>, d, DrawnFundamentals(fdraw)) :
          md \in Snapshots, h \in {HistoryStats(50, 220, FALSE)},
          d \in OptionDraws, fdraw \in FundamentalDraws }
    \cup
    { ScoringInput(md, h, << >>, d, f) :
          md \in Snapshots, h \in Histories100,
          d \in {OptionDraw({1}, {}, 200, 50, IvNoise)},
          f \in { GivenFundamentals(fd) : fd \in FundamentalsGiven }
                  \cup { DrawnFundamentals(fdraw) : fdraw \in FundamentalDraws } }

NothingAnalyzed ==
    [done |-> {}, ignition |-> NeutralIgnition,
     pressure |-> NeutralPressure(MarketData("", 0, 0, 0, 0, 0)),
     fuel |-> NeutralFuel, total_score |-> 0, score |-> NoScore]

\* IgnitionEngine.analyze(market_data, historical_prices)
AnalyzeIgnition ==
    /\ "ignition" \notin out.done /\ "score_symbol" \notin out.done
    /\ out' = [out EXCEPT !.done = @ \cup {"ignition"},
                          !.ignition = IgnitionAnalyze(input.md, input.hist)]
    /\ UNCHANGED <<now, cache, call, ticks, input>>

\* PressureEngine.analyze(market_data, options_data)
AnalyzePressure ==
    /\ "pressure" \notin out.done /\ "score_symbol" \notin out.done
    /\ out' = [out EXCEPT !.done = @ \cup {"pressure"},
                          !.pressure = PressureAnalyze(input.md, input.options)]
    /\ UNCHANGED <<now, cache, call, ticks, input>>

\* FuelEngine.analyze(market_data, fundamental_data)
AnalyzeFuel ==
    /\ "fuel" \notin out.done /\ "score_symbol" \notin out.done
    /\ out' = [out EXCEPT !.done = @ \cup {"fuel"},
                          !.fuel = FuelAnalyze(input.md,
                                       FundamentalsOf(input.md,
                                                      input.fundamentals))]
    /\ UNCHANGED <<now, cache, call, ticks, input>>

\* CompositeScorer._calculate_weighted_score on the three signals
WeighSignals ==
    /\ out.done = {"ignition", "pressure", "fuel"}
    /\ out' = [out EXCEPT !.done = @ \cup {"weighted"},
                          !.total_score = CalculateWeightedScore(
                                              out.ignition, out.pressure,
                                              out.fuel)]
    /\ UNCHANGED <<now, cache, call, ticks, input>>

\* Lines 46-81 of score_symbol on the three signals: the benchmark is asked
\* unless the expected return raised before.
ScoreSignals(tf, outcome, dur, md, ignition, pressure, fuel) ==
    LET r == GetExpectedReturnResult(cache, now, tf, outcome, dur)
        asked == ~ExpectedReturnRaises(md, pressure)
    IN /\ (asked /\ r.now # now) => ticks < MaxTicks
       /\ ticks' = IF asked /\ r.now # now THEN ticks + 1 ELSE ticks
       /\ cache' = IF asked THEN r.cache ELSE cache
       /\ now' = IF asked THEN r.now ELSE now
       /\ call' = IF asked
                  THEN [op |-> "get_expected_return", tf |-> tf, at |-> now,
                        outcome |-> IF r.fetched THEN outcome ELSE NoFetch,
                        fetched |-> r.fetched, ret |-> r.ret, before |-> cache]
                  ELSE call
       /\ out' = [done |-> {"score_symbol"}, ignition |-> ignition,
                  pressure |-> pressure, fuel |-> fuel,
                  total_score |-> CalculateWeightedScore(ignition, pressure,
                                                         fuel),
                  score |-> CompositeScoreOf(md, ignition, pressure, fuel,
                                             r.ret)]

\* CompositeScorer.score_symbol(market_data, timeframe): the engines are given
\* the snapshot only, so each draws its own data (lines 42-44).  The three
\* generators seed numpy with the same hash of the symbol; their draws are
\* taken independently here, which allows every combination the code can
\* produce.
ScoreSymbol(tf, outcome, dur) ==
    /\ out.done = {}
    /\ input.options.kind = "synthetic"
    /\ input.fundamentals.kind = "synthetic"
    /\ ~input.hist.fails
    /\ ScoreSignals(tf, outcome, dur, input.md,
                    IgnitionAnalyze(input.md, input.hist),
                    PressureAnalyze(input.md, input.options),
                    FuelAnalyze(input.md,
                                FundamentalsOf(input.md, input.fundamentals)))
    /\ UNCHANGED input

InitScoring ==
    /\ InitBenchmark
    /\ input \in ScoringInputs
    /\ out = NothingAnalyzed

NextScoring ==
    \/ AnalyzeIgnition
    \/ AnalyzePressure
    \/ AnalyzeFuel
    \/ WeighSignals
    \/ \E tf \in Timeframes, o \in FetchOutcomes, dur \in FetchSeconds :
            ScoreSymbol(tf, o, dur)

SpecScoring == InitScoring /\ [][NextScoring]_vars

(***************************************************************************)
(* Claims about the engines and score_symbol                               *)
(***************************************************************************)
Scored == "score_symbol" \in out.done /\ out.score.returned
PressureAnalyzed == "pressure" \in out.done \/ "score_symbol" \in out.done

\* C5: every CompositeScore of score_symbol has btc_benchmark_passed exactly
\* when expected_return is strictly greater than btc_expected_return, the
\* value get_expected_return returned to this call; an expected_return equal
\* to the benchmark does not pass.
C5_BenchmarkGate ==
    Scored =>
        /\ call.op = "get_expected_return"
        /\ out.score.btc_expected_return = call.ret
        /\ out.score.btc_benchmark_passed
               <=> (out.score.expected_return.num
                        > call.ret * out.score.expected_return.den)
        /\ (out.score.expected_return.num
                = call.ret * out.score.expected_return.den)
               => ~out.score.btc_benchmark_passed

\* a score whose expected_return equals the benchmark, and is not passed
C5_Witness ==
    /\ Scored
    /\ out.score.expected_return.num
           = out.score.btc_expected_return * out.score.expected_return.den
    /\ out.score.expected_return.num > 0
    /\ ~out.score.btc_benchmark_passed

InClamp(p) == 10 <= p /\ p <= 990

\* C9: the probability_reach of every PressureSignal analyze returns, of every
\* GammaWall in it and of the CompositeScore built from it lies in
\* [0.01, 0.99], also without a significant wall, with a target strike equal
\* to the price and on the failure path.
C9_ProbabilityWithinClamp ==
    PressureAnalyzed =>
        /\ InClamp(out.pressure.probability_reach)
        /\ \A i \in 1..Len(out.pressure.nearest_walls) :
               InClamp(out.pressure.nearest_walls[i].probability_reach)
        /\ Scored => InClamp(out.score.probability_reach)

InScoreRange(x) == 0 <= x /\ x <= PointsCap

\* C10: IgnitionSignal.score, PressureSignal.score, FuelSignal.score,
\* FuelSignal.short_squeeze_score and CompositeScore.total_score each lie in
\* [0, 100], on the engines' failure paths too.
C10_ScoresWithinBounds ==
    /\ ("ignition" \in out.done \/ "score_symbol" \in out.done)
           => InScoreRange(out.ignition.score)
    /\ PressureAnalyzed => InScoreRange(out.pressure.score)
    /\ ("fuel" \in out.done \/ "score_symbol" \in out.done)
           => /\ InScoreRange(out.fuel.score)
              /\ InScoreRange(out.fuel.short_squeeze_score)
    /\ ("weighted" \in out.done \/ "score_symbol" \in out.done)
           => 0 <= out.total_score /\ out.total_score <= 100 * 100000
    /\ Scored => 0 <= out.score.total_score
                 /\ out.score.total_score <= 100 * 100000

\* the three signals weigh more than 100 points and the total is 100
C10_Witness ==
    /\ "weighted" \in out.done
    /\ WeightedPlusBonus(out.ignition, out.pressure, out.fuel) > 100 * 100000
    /\ out.total_score = 100 * 100000
    /\ out.ignition.score = PointsCap
    /\ out.fuel.short_squeeze_score = PointsCap

(***************************************************************************)
(* CompositeScorer.filter_and_rank                                         *)
(***************************************************************************)
MAX_SYMBOLS_PER_SCAN == 3            \* config.py:19
MIN_SCORE_THRESHOLD == 70            \* config.py:23, points
MIN_PROBABILITY_THRESHOLD == 650     \* config.py:34: 0.65

Qualifies_anyScore(score, min_score) ==
    /\ score.btc_benchmark_passed
    /\ ~(score.probability_reach < MIN_PROBABILITY_THRESHOLD)

Qualifies_belowThreshold(score, min_score) ==
    /\ score.btc_benchmark_passed
    /\ ~(score.total_score > min_score * 100000)
    /\ ~(score.probability_reach < MIN_PROBABILITY_THRESHOLD)

\* the three filters of lines 225-241; min_score is config.MIN_SCORE_THRESHOLD
Qualifies(score, min_score) ==
    /\ score.btc_benchmark_passed
    /\ ~(score.total_score < min_score * 100000)
    /\ ~(score.probability_reach < MIN_PROBABILITY_THRESHOLD)

\* ranking_key, in 1e-6 point: total_score * 0.7 + probability_reach * 30
\* + risk_reward_ratio * 5
RankingKey(score) ==
    score.total_score * 7 + score.probability_reach * 30000
        + score.risk_reward_ratio * 50000

\* filter_and_rank(scores) under a configured minimum score
FilterAndRankResult(scores, min_score) ==
    LET filtered == SelectSeq(scores, LAMBDA sc : Qualifies(sc, min_score))
        keyed == [i \in 1..Len(filtered) |->
                      [key |-> RankingKey(filtered[i]), item |-> filtered[i]]]
        ranked == SortedDescending(keyed)
    IN [i \in 1..Min(MAX_SYMBOLS_PER_SCAN, Len(ranked)) |-> ranked[i].item]

\* a CompositeScore with the fields filter_and_rank reads
Candidate(symbol, total, passed, probability, risk_reward) ==
    [NoScore EXCEPT !.returned = TRUE, !.symbol = symbol,
                    !.total_score = total * 100000,
                    !.btc_benchmark_passed = passed,
                    !.probability_reach = probability,
                    !.risk_reward_ratio = risk_reward]

Candidates ==
    { Candidate("A", 85, TRUE, 800, 100),
      Candidate("B", 85, TRUE, 800, 100),
      Candidate("C", 69, TRUE, 900, 200),
      Candidate("D", 70, TRUE, 650, 100),
      Candidate("E", 95, FALSE, 900, 300),
      Candidate("F", 90, TRUE, 640, 100),
      Candidate("G", 75, TRUE, 990, 300) }

MaxScores == 4
ScoreThresholds == {60, MIN_SCORE_THRESHOLD, 80}

ScoreLists == UNION { [1..n -> Candidates] : n \in 0..MaxScores }

NoRanking == [min_score |-> -1, result |-> << >>]
NothingRanked == [prev |-> NoRanking, last |-> NoRanking]

\* filter_and_rank(scores) with MIN_SCORE_THRESHOLD configured as min_score;
\* out keeps the two latest applications to the list
FilterAndRank(min_score) ==
    /\ out.prev = NoRanking
    /\ out' = [prev |-> out.last,
               last |-> [min_score |-> min_score,
                         result |-> FilterAndRankResult(input.scores,
                                                        min_score)]]
    /\ UNCHANGED <<now, cache, call, ticks, input>>

InitRank ==
    /\ InitBenchmark
    /\ input \in { [scores |-> l] : l \in ScoreLists }
    /\ out = NothingRanked

NextRank == \E m \in ScoreThresholds : FilterAndRank(m)

SpecRank == InitRank /\ [][NextRank]_vars

(***************************************************************************)
(* Claims about filter_and_rank                                            *)
(***************************************************************************)
Ranked == out.last # NoRanking
RankedTwice == out.prev # NoRanking /\ out.last # NoRanking

\* C6: every element of filter_and_rank's output is an element of its input
\* that passed the benchmark, has total_score >= MIN_SCORE_THRESHOLD and
\* probability_reach >= MIN_PROBABILITY_THRESHOLD; with the threshold at 70 a
\* single candidate scoring 69 gives no result.
C6_FilterSoundness ==
    Ranked =>
        /\ \A i \in 1..Len(out.last.result) :
               LET r == out.last.result[i]
               IN /\ \E j \in 1..Len(input.scores) : input.scores[j] = r
                  /\ r.btc_benchmark_passed
                  /\ r.total_score >= out.last.min_score * 100000
                  /\ r.probability_reach >= MIN_PROBABILITY_THRESHOLD
        /\ ( /\ out.last.min_score = 70
             /\ Len(input.scores) = 1
             /\ input.scores[1].total_score = 69 * 100000 )
               => out.last.result = << >>

\* the single candidate scoring 69 has been filtered at the threshold 70
C6_Witness ==
    /\ Ranked
    /\ out.last.min_score = MIN_SCORE_THRESHOLD
    /\ Len(input.scores) = 1
    /\ input.scores[1].total_score = 69 * 100000
    /\ input.scores[1].btc_benchmark_passed
    /\ input.scores[1].probability_reach >= MIN_PROBABILITY_THRESHOLD
    /\ out.last.result = << >>

\* the input positions that satisfy the three filters
QualifyingAt(scores, m) ==
    { i \in 1..Len(scores) :
          /\ scores[i].btc_benchmark_passed
          /\ scores[i].total_score >= m * 100000
          /\ scores[i].probability_reach >= MIN_PROBABILITY_THRESHOLD }

\* the key of the claim, times 10 to stay in the integers
KeyTimesTen(sc) ==
    (sc.total_score * 7 + sc.probability_reach * 100 * 300
         + sc.risk_reward_ratio * 1000 * 50)

\* position i comes before position j: greater key, or equal key and earlier
Before(scores, i, j) ==
    \/ KeyTimesTen(scores[i]) > KeyTimesTen(scores[j])
    \/ KeyTimesTen(scores[i]) = KeyTimesTen(scores[j]) /\ i < j

PlaceOf(scores, m, i) ==
    1 + Cardinality({ j \in QualifyingAt(scores, m) : Before(scores, j, i) })

ExpectedRanking(scores, m) ==
    LET q == QualifyingAt(scores, m)
        n == IF Cardinality(q) < 3 THEN Cardinality(q) ELSE 3
    IN [p \in 1..n |-> scores[CHOOSE i \in q : PlaceOf(scores, m, i) = p]]

\* C7: the output is the first MAX_SYMBOLS_PER_SCAN (3) of the qualifying
\* candidates in descending order of total_score*0.7 + probability_reach*30
\* + risk_reward_ratio*5, equal keys in input order; a second application to
\* the same list gives the identical output.
C7_RankOrder ==
    /\ Ranked =>
           out.last.result = ExpectedRanking(input.scores, out.last.min_score)
    /\ (RankedTwice /\ out.prev.min_score = out.last.min_score)
           => out.prev.result = out.last.result

\* two candidates of equal key are both returned, in input order, and a
\* candidate of lower total_score precedes them
C7_Witness ==
    /\ RankedTwice
    /\ out.prev.min_score = out.last.min_score
    /\ Len(out.last.result) = 3
    /\ Cardinality(QualifyingAt(input.scores, out.last.min_score)) = 4
    /\ out.last.result[1].symbol = "G"
    /\ out.last.result[2].symbol = "B"
    /\ out.last.result[3].symbol = "A"
    /\ input.scores[1].symbol = "B"

\* C8: for thresholds m1 <= m2 applied to the same list, the number of
\* candidates returned under m2 is at most the number returned under m1.
C8_ThresholdMonotone ==
    RankedTwice =>
        /\ out.prev.min_score <= out.last.min_score
               => Len(out.last.result) <= Len(out.prev.result)
        /\ out.last.min_score <= out.prev.min_score
               => Len(out.prev.result) <= Len(out.last.result)

\* raising the threshold from 60 to 80 has removed candidates
C8_Witness ==
    /\ RankedTwice
    /\ out.prev.min_score = 60
    /\ out.last.min_score = 80
    /\ Len(out.prev.result) = 3
    /\ Len(out.last.result) = 1

(***************************************************************************)
(* execution/scanner.py: _apply_basic_filters                              *)
(***************************************************************************)
MIN_PRICE == 20       \* config.py:20: 2.0
MAX_PRICE == 5000     \* config.py:21: 500.0

PassesBasicFilters_haltedAnyVolume(data) ==
    /\ ~(data.price < MIN_PRICE \/ data.price > MAX_PRICE)
    /\ ~(data.volume <= 0)
    /\ ~(data.high <= 0 \/ data.low <= 0 \/ data.open <= 0)
    /\ ~(data.high = data.low /\ data.low = data.price)

\* the four tests of lines 116-133, none of which drops the snapshot
PassesBasicFilters(data) ==
    /\ ~(data.price < MIN_PRICE \/ data.price > MAX_PRICE)
    /\ ~(data.volume <= 0)
    /\ ~(data.high <= 0 \/ data.low <= 0 \/ data.open <= 0)
    /\ ~(data.high = data.low /\ data.low = data.price /\ data.volume < 1000)

\* the loop of lines 114-135: `rest` still to visit, `filtered` appended to
RECURSIVE BasicFilterLoop(_, _)
BasicFilterLoop(rest, filtered) ==
    IF rest = << >> THEN filtered
    ELSE BasicFilterLoop(Tail(rest),
                         IF PassesBasicFilters(Head(rest))
                         THEN Append(filtered, Head(rest)) ELSE filtered)

\* _apply_basic_filters
ApplyBasicFilters(market_data_list) == BasicFilterLoop(market_data_list, << >>)

(***************************************************************************)
(* _calculate_expected_return and _apply_basic_filters on a snapshot with  *)
(* given pressure and fuel signals                                         *)
(***************************************************************************)
\* a PressureSignal with the fields _calculate_expected_return reads
PressureWith(md, target_strike, probability) ==
    [NeutralPressure(md) EXCEPT !.target_strike = target_strike,
                                !.probability_reach = probability]

\* a FuelSignal with the fields _calculate_expected_return reads
FuelWith(squeeze_points, relative_volume) ==
    [NeutralFuel EXCEPT !.short_squeeze_score = squeeze_points * 1000,
                        !.relative_volume = relative_volume]

TargetOffsets == {-50, 0, 50, 100}
Probabilities == {0, 10, 500, 501, 620, 990, 1000}
SqueezeLevels == {0, 65, 70, 71, 75, 85, 100}
RelativeVolumes == {100, 250, 400}

SignalInputs ==
    { [md |-> md, pressure |-> PressureWith(md, NoTarget, 0),
       fuel |-> FuelWith(sq, rv)] :
          md \in Snapshots, sq \in SqueezeLevels, rv \in RelativeVolumes }
    \cup
    { [md |-> md, pressure |-> PressureWith(md, md.price + off, p),
       fuel |-> FuelWith(sq, rv)] :
          md \in {m \in Snapshots : m.price > 50}, off \in TargetOffsets,
          p \in Probabilities, sq \in SqueezeLevels,
          rv \in {100, 400} }

NothingCalculated ==
    [done |-> {}, kept |-> << >>, raised |-> FALSE,
     expected_return |-> [num |-> 0, den |-> 1], target_price |-> 0]

\* MarketScanner._apply_basic_filters([market_data])
FilterSnapshot ==
    /\ "filter" \notin out.done
    /\ out' = [out EXCEPT !.done = @ \cup {"filter"},
                          !.kept = ApplyBasicFilters(<<input.md>>)]
    /\ UNCHANGED <<now, cache, call, ticks, input>>

\* CompositeScorer._calculate_expected_return(market_data, pressure, fuel)
CalculateReturn ==
    /\ "return" \notin out.done
    /\ out' = IF ExpectedReturnRaises(input.md, input.pressure)
              THEN [out EXCEPT !.done = @ \cup {"return"}, !.raised = TRUE]
              ELSE LET er == ScorerCalculateExpectedReturn(
                                 input.md, input.pressure, input.fuel)
                   IN [out EXCEPT !.done = @ \cup {"return"},
                                  !.expected_return =
                                      [num |-> er.num, den |-> er.den],
                                  !.target_price = er.target_price]
    /\ UNCHANGED <<now, cache, call, ticks, input>>

InitReturn ==
    /\ InitBenchmark
    /\ input \in SignalInputs
    /\ out = NothingCalculated

NextReturn == FilterSnapshot \/ CalculateReturn

SpecReturn == InitReturn /\ [][NextReturn]_vars

\* the snapshot, pressure signal and fuel signal of the scenario
IsScenario ==
    /\ input.md.price = 1500 /\ input.md.high = 1520 /\ input.md.low = 1485
    /\ input.md.volume = 5000000
    /\ input.pressure.target_strike = 1550
    /\ input.pressure.probability_reach = 620
    /\ input.fuel.short_squeeze_score = 75000

ScenarioDone == IsScenario /\ out.done = {"filter", "return"}

\* C11 as stated: for the snapshot (150.00, high 152.00, low 148.50, volume
\* 5,000,000) with target_strike 155.00, probability_reach 0.62 and
\* short_squeeze_score 75, the snapshot passes the basic filters and
\* expected_return is about 0.0431 (between 0.0430 and 0.0432) with target
\* price 155.00.
C11_ScenarioReturnStated ==
    ScenarioDone =>
        /\ out.kept = <<input.md>>
        /\ ~out.raised
        /\ 430 * out.expected_return.den <= out.expected_return.num
        /\ out.expected_return.num <= 432 * out.expected_return.den
        /\ out.target_price = 1550 * 1000

\* C11 amended: in the same scenario the snapshot passes the basic filters and
\* expected_return is ((155-150)/150) x 0.62 x (1 + 75/200) = 1705/60000,
\* about 0.0284, with target price 155.00.
C11_ScenarioReturn ==
    ScenarioDone =>
        /\ out.kept = <<input.md>>
        /\ ~out.raised
        /\ out.expected_return.num * 6 = 1705 * out.expected_return.den
        /\ 284 * out.expected_return.den <= out.expected_return.num
        /\ out.expected_return.num < 285 * out.expected_return.den
        /\ out.target_price = 1550 * 1000

C11_Witness ==
    /\ ScenarioDone
    /\ out.kept # << >>
    /\ out.expected_return.num > 0

ReturnCalculated == "return" \in out.done /\ ~out.raised

RECURSIVE Gcd(_, _)
Gcd(a, b) == IF b = 0 THEN a ELSE Gcd(b, a % b)

\* num/den in lowest terms, den positive
Lowest(num, den) ==
    LET g == Gcd(Abs(num), den)
    IN <<num \div g, den \div g>>

\* is the fraction er equal to num/den?
IsFraction(er, num, den) == Lowest(er.num, er.den) = Lowest(num, den)

\* a target strike exists and probability_reach > 0.5
UsesTargetStrike ==
    /\ input.pressure.target_strike # NoTarget
    /\ input.pressure.probability_reach > 500

\* 1 + squeeze_score/200 when squeeze_score > 70, else 1, in 1/200
StatedSqueezeMultiplier ==
    IF input.fuel.short_squeeze_score > 70000
    THEN 200 + input.fuel.short_squeeze_score \div 1000 ELSE 200

\* C24: _calculate_expected_return takes the pressure target strike as target
\* price, with base return (target - price)/price, exactly when a target
\* strike exists and probability_reach > 0.5; otherwise the target is
\* price x (1 + estimated move) and the base return is the estimated move; in
\* both cases the expected return is base return x probability_reach,
\* multiplied by (1 + squeeze_score/200) exactly when squeeze_score > 70.
C24_TargetAndReturn ==
    ReturnCalculated =>
        LET price == input.md.price
            move == EstimatePriceMove(input.md, input.fuel)
            adjust == input.pressure.probability_reach
                          * StatedSqueezeMultiplier
            er == out.expected_return
            strike == input.pressure.target_strike
        IN IF UsesTargetStrike
           THEN /\ out.target_price = strike * 1000
                /\ IsFraction(er, (strike - price) * adjust, price * 20)
           ELSE /\ out.target_price * 4 <= price * (4000 + move)
                /\ price * (4000 + move) < out.target_price * 4 + 4
                /\ IsFraction(er, move * adjust, 80000)

\* a target strike with probability exactly 0.5 is not used: the return is
\* the estimated move x 0.5 x (1 + 75/200)
C24_Witness ==
    /\ ReturnCalculated
    /\ input.pressure.target_strike = input.md.price + 100
    /\ input.pressure.probability_reach = 500
    /\ input.fuel.short_squeeze_score = 75000
    /\ input.fuel.relative_volume = 400
    /\ out.target_price # input.pressure.target_strike * 1000
    /\ out.expected_return.num > 0

(***************************************************************************)
(* scoring/benchmark.py: _calculate_expected_return on a fetched history   *)
(***************************************************************************)
Momenta == {-3000, -60, -20, 0, 20, 50, 60, 400, 3000}
Volatilities == {0, 50, 100, 400, 2000}
HistoryLengths == {1, 7, 8, 47, 48, 168}

CalculateInputs ==
    { [data |-> History(n, m, v), tf |-> tf] :
          n \in HistoryLengths, m \in Momenta, v \in Volatilities,
          tf \in Timeframes \cup {TF(2, "h"), TF(30, "m")} }

\* BTCBenchmark._calculate_expected_return(btc_data, timeframe)
Calculate ==
    /\ out = NotRun
    /\ out' = [op |-> "calculate",
               ret |-> CalculateExpectedReturn(input.data, input.tf)]
    /\ UNCHANGED <<now, cache, call, ticks, input>>

\* one get_expected_return(input.tf) on a configured timeframe
GetOnce ==
    /\ call = NoCall
    /\ input.tf \in Timeframes
    /\ \E o \in FetchOutcomes, dur \in FetchSeconds :
            GetExpectedReturn(input.tf, o, dur)

InitCalculate ==
    /\ InitBenchmark
    /\ input \in CalculateInputs
    /\ out = NotRun

NextCalculate == Calculate \/ GetOnce

SpecCalculate == InitCalculate /\ [][NextCalculate]_vars

Calculated == out.op = "calculate"

\* momentum 0.002, volatility 0.01, timeframe "4h", enough history
IsBenchmarkScenario ==
    /\ input.data.momentum = 20
    /\ input.data.vol = 100
    /\ input.tf = TF(4, "h")
    /\ input.data.len >= 8

\* C12 as stated: with momentum 0.002, periods 4 ("4h") and volatility 0.01,
\* _calculate_expected_return returns volatility_expectation = 0.02.
C12_ScenarioStated ==
    (Calculated /\ IsBenchmarkScenario) => out.ret = 200

\* C12 amended: in that scenario base_expectation is 0.008 and
\* volatility_expectation 0.02; momentum is not dominant, the lower of the two
\* (0.008) is taken and the clamp to [0.01, 0.12] raises it to 0.01.
C12_Scenario ==
    (Calculated /\ IsBenchmarkScenario) =>
        /\ input.data.momentum * GetPeriodsForTimeframe(input.tf) = 80
        /\ ISqrt(input.data.vol * input.data.vol
                    * GetPeriodsForTimeframe(input.tf)) = 200
        /\ ~(2 * Abs(input.data.momentum) > input.data.vol)
        /\ out.ret = 100

C12_Witness == Calculated /\ IsBenchmarkScenario /\ out.ret < 200

\* the period count the benchmark range is stated for
StatedPeriods(tf) ==
    IF tf = TF(1, "h") THEN 1
    ELSE IF tf = TF(4, "h") THEN 4
    ELSE IF tf = TF(1, "d") THEN 24
    ELSE GetPeriodsForTimeframe(tf)

StatedCeiling(tf) ==
    IF StatedPeriods(tf) <= 1 THEN 500
    ELSE IF StatedPeriods(tf) <= 2 THEN 800
    ELSE IF StatedPeriods(tf) <= 4 THEN 1200
    ELSE 2000

InBenchmarkRange(ret, tf) == 100 <= ret /\ ret <= StatedCeiling(tf)

\* C20: every value get_expected_return(tf) returns, and every value
\* _calculate_expected_return computes for it, is at least 0.01 and at most the
\* ceiling for tf: 0.05 up to 1 period, 0.08 up to 2, 0.12 up to 4, else 0.20.
C20_BenchmarkRange ==
    /\ IsGet => InBenchmarkRange(call.ret, call.tf)
    /\ Calculated => InBenchmarkRange(out.ret, input.tf)

\* a computed value cut down to its ceiling, next to a returned value
C20_Witness ==
    /\ IsGet /\ call.fetched
    /\ Calculated
    /\ Abs(input.data.momentum) * GetPeriodsForTimeframe(input.tf)
           > StatedCeiling(input.tf)
    /\ out.ret = StatedCeiling(input.tf)

(***************************************************************************)
(* _apply_basic_filters on lists of snapshots                              *)
(***************************************************************************)
MaxSnapshots == 3

FilterCases ==
    { MarketData("OK", 500, 1000000, 510, 490, 495),
      MarketData("LOW", 19, 1000000, 20, 18, 19),
      MarketData("MIN", 20, 1000000, 21, 19, 20),
      MarketData("MAX", 5000, 1000000, 5010, 4990, 5000),
      MarketData("HIGH", 5001, 1000000, 5010, 4990, 5000),
      MarketData("NOVOL", 500, 0, 510, 490, 495),
      MarketData("NOOPEN", 500, 1000000, 510, 490, 0),
      MarketData("NOLOW", 500, 1000000, 510, 0, 495),
      MarketData("HALT", 500, 999, 500, 500, 500),
      MarketData("THIN", 500, 1000, 500, 500, 500),
      MarketData("QUIET", 500, 999, 510, 500, 500) }

SnapshotLists ==
    UNION { [1..n -> FilterCases] : n \in 0..MaxSnapshots }

\* MarketScanner._apply_basic_filters(market_data_list)
BasicFilter ==
    /\ out = NotRun
    /\ out' = [op |-> "filter", kept |-> ApplyBasicFilters(input)]
    /\ UNCHANGED <<now, cache, call, ticks, input>>

InitBasicFilter ==
    /\ InitBenchmark
    /\ input \in SnapshotLists
    /\ out = NotRun

NextBasicFilter == BasicFilter

SpecBasicFilter == InitBasicFilter /\ [][NextBasicFilter]_vars

Filtered == out.op = "filter"

\* the condition under which a snapshot is to be kept
StatedKeep(md) ==
    /\ MIN_PRICE <= md.price /\ md.price <= MAX_PRICE
    /\ md.volume > 0
    /\ md.high > 0 /\ md.low > 0 /\ md.open > 0
    /\ ~(md.high = md.low /\ md.low = md.price /\ md.volume < 1000)

\* C19: _apply_basic_filters keeps a snapshot iff MIN_PRICE <= price <=
\* MAX_PRICE, volume > 0, high, low and open > 0 and not (high = low = price
\* and volume < 1000); the kept snapshots are the input's own, in input order.
C19_BasicFilter ==
    Filtered => out.kept = SelectSeq(input, StatedKeep)

\* a list from which a halted symbol between two kept ones is dropped
C19_Witness ==
    /\ Filtered
    /\ Len(input) = 3 /\ Len(out.kept) = 2
    /\ input[2].symbol = "HALT"
    /\ out.kept = <<input[1], input[3]>>
    /\ input[1] # input[3]

(***************************************************************************)
(* Failures inside the engines (SpecScoring)                               *)
(***************************************************************************)
\* the computations of each analyze that raise on its input
IgnitionRaised == input.hist.fails \/ input.md.price = 0
PressureRaised ==
    input.md.price = 0
    /\ (input.options.kind = "chain" => input.options.rows # << >>)
FuelRaised ==
    input.fundamentals.kind = "data" /\ ~input.fundamentals.data.valid

ScoreSymbolDone == "score_symbol" \in out.done

\* each analyze that raised returned the neutral signal
NeutralOnFailure ==
    /\ ("ignition" \in out.done /\ IgnitionRaised) =>
           /\ ~out.ignition.vwap_momentum /\ ~out.ignition.expansion_energy
           /\ ~out.ignition.entry_timing /\ out.ignition.score = 0
    /\ ("pressure" \in out.done /\ PressureRaised) =>
           /\ out.pressure.target_strike = NoTarget
           /\ out.pressure.probability_reach = 0
           /\ out.pressure.dealer_flow = "neutral"
           /\ out.pressure.score = 0
    /\ ("fuel" \in out.done /\ FuelRaised) =>
           /\ ~out.fuel.low_float /\ ~out.fuel.high_short_interest
           /\ ~out.fuel.high_borrow_cost /\ ~out.fuel.volume_surge
           /\ out.fuel.score = 0

batch_size == 10                                       \* scanner.py:85

NoSnapshot == MarketData("", 0, 0, 0, 0, 0)

\* What awaiting DataManager.get_market_data(symbol) comes to: a MarketData,
\* None, or an exception.  "malformed" is a MarketData whose price is None.
Snapshot(md) == [kind |-> "data", md |-> md]
Malformed(md) == [kind |-> "malformed", md |-> md]
Absent == [kind |-> "absent", md |-> NoSnapshot]
FetchFailure == [kind |-> "raises", md |-> NoSnapshot]
FetchResults(md) == {Snapshot(md), Malformed(md), Absent, FetchFailure}

\* a slot of gather's result list that no task has filled yet
Pending == [kind |-> "pending", md |-> NoSnapshot]

Listing(symbol, result) == [symbol |-> symbol, result |-> result]

\* a gather that hands the results over in completion order
GatherPut_completionOrder(results, i, r) ==
    LET free == {k \in 1..Len(results) : results[k].kind = "pending"}
        first == CHOOSE k \in free : \A j \in free : k <= j
    IN [results EXCEPT ![first] = r]

\* asyncio.gather: the result of the i-th awaitable becomes the i-th result
GatherPut(results, i, r) == [results EXCEPT ![i] = r]

\* isinstance(result, MarketData), line 102
IsMarketData(result) == result.kind \in {"data", "malformed"}

\* the loop of lines 101-106 that stops at the first failure
RECURSIVE CollectMarketData_stopsAtFailure(_, _)
CollectMarketData_stopsAtFailure(results, market_data) ==
    IF results = << >> \/ ~IsMarketData(Head(results)) THEN market_data
    ELSE CollectMarketData_stopsAtFailure(Tail(results),
                                          Append(market_data, Head(results)))

\* the loop of lines 101-106
RECURSIVE CollectMarketData(_, _)
CollectMarketData(results, market_data) ==
    IF results = << >> THEN market_data
    ELSE CollectMarketData(Tail(results),
                           IF IsMarketData(Head(results))
                           THEN Append(market_data, Head(results))
                           ELSE market_data)

\* the locals of run_scan and of the calls it awaits
ScanLocals(pc, n) ==
    [pc |-> pc, scan_count |-> 0,
     created |-> 0, slept |-> 0, started |-> 0, done |-> {},
     results |-> [i \in 1..n |-> Pending], market_data |-> << >>,
     symbols_data |-> << >>, score_started |-> 0, score_done |-> {},
     score_results |-> << >>, valid_scores |-> << >>,
     scan_results |-> << >>, raised |-> FALSE,
     \* history: has a task completed while one created before it was running
     overtaken |-> FALSE]

NumSymbols == Len(input.listings)
InFlight == (1..out.started) \ out.done

\* lines 86-90 and 93-94: the coroutines of one batch are created, none is
\* started; then the pacing delay if symbols remain, else gather (line 97)
CreateBatch ==
    /\ out.pc = "creating"
    /\ LET created == Min(out.created + batch_size, NumSymbols)
       IN out' = [out EXCEPT !.created = created,
                             !.pc = IF out.created + batch_size < NumSymbols
                                    THEN "sleeping" ELSE "gathering"]
    /\ UNCHANGED <<now, cache, call, ticks, input>>

\* await asyncio.sleep(0.5), line 94
PacingDelay ==
    /\ out.pc = "sleeping"
    /\ out' = [out EXCEPT !.slept = @ + 1, !.pc = "creating"]
    /\ UNCHANGED <<now, cache, call, ticks, input>>

\* gather has scheduled every coroutine as a task; the event loop runs the
\* first step of each in the order of creation: the fetch is in flight
StartFetch ==
    /\ out.pc = "gathering"
    /\ out.started < out.created
    /\ out' = [out EXCEPT !.started = @ + 1]
    /\ UNCHANGED <<now, cache, call, ticks, input>>

\* the fetch for position i finishes, in any order among those in flight
CompleteFetch(i) ==
    /\ out.pc = "gathering"
    /\ i \in InFlight
    /\ out' = [out EXCEPT
                  !.done = @ \cup {i},
                  !.results = GatherPut(@, i, input.listings[i].result),
                  !.overtaken = @ \/ (\E j \in InFlight : j < i)]
    /\ UNCHANGED <<now, cache, call, ticks, input>>

\* gather returns once every task is done; lines 99-108
ReturnMarketData ==
    /\ out.pc = "gathering"
    /\ out.done = 1..NumSymbols
    /\ out' = [out EXCEPT !.pc = "fetched",
                          !.market_data = CollectMarketData(out.results, << >>)]
    /\ UNCHANGED <<now, cache, call, ticks, input>>

MaxSymbols == 3

FetchedSnapshots ==
    { MarketData("AAA", 500, 1000000, 520, 480, 490),
      MarketData("BBB", 200, 600000, 230, 195, 200) }

FetchListings ==
    UNION { { Listing(md.symbol, r) : r \in FetchResults(md) } :
                md \in FetchedSnapshots }

\* every short symbol list with every outcome, and lists of one symbol
\* repeated that fill one batch and one batch and one more
FetchInputs ==
    { [listings |-> l] :
        l \in UNION { [1..n -> FetchListings] : n \in 0..MaxSymbols } }
    \cup
    { [listings |-> [i \in 1..n |-> Listing("AAA", r)]] :
        n \in {batch_size, batch_size + 1},
        r \in {Snapshot(MarketData("AAA", 500, 1000000, 520, 480, 490)),
               Absent} }

InitFetch ==
    /\ InitBenchmark
    /\ input \in FetchInputs
    /\ out = ScanLocals("creating", NumSymbols)

NextFetch ==
    \/ CreateBatch
    \/ PacingDelay
    \/ StartFetch
    \/ \E i \in 1..NumSymbols : CompleteFetch(i)
    \/ ReturnMarketData

SpecFetch == InitFetch /\ [][NextFetch]_vars

BatchOf(i) == (i - 1) \div batch_size

\* C13: at no time are more than 10 fetches in flight, and a fetch of batch
\* k+1 has started only if every fetch of batch k has completed and the
\* pacing delay between the two batches has elapsed.
C13_BatchedFetching ==
    /\ Cardinality(InFlight) <= batch_size
    /\ \A i \in 1..out.started : \A j \in 1..NumSymbols :
           BatchOf(i) = BatchOf(j) + 1
               => (j \in out.done /\ out.slept >= BatchOf(i))

IsData(result) == result.kind \in {"data", "malformed"}

\* C14: for any symbol list and any subset of symbols whose fetch raises or
\* returns absent, _fetch_market_data completes with exactly the snapshots of
\* the remaining symbols, in symbol-list order.
C14_PartialFetchFailure ==
    /\ ~out.raised
    /\ out.pc = "fetched" =>
           out.market_data
               = SelectSeq([i \in 1..NumSymbols |-> input.listings[i].result],
                           IsData)

\* a fetch that failed first and a later one that gave a snapshot
C14_Witness ==
    /\ out.pc = "fetched"
    /\ NumSymbols = 3
    /\ input.listings[1].result.kind = "raises"
    /\ input.listings[2].result.kind = "absent"
    /\ out.market_data = <<input.listings[3].result>>
    /\ input.listings[3].result.kind = "data"

(***************************************************************************)
(* scoring/composite.py: score_multiple_symbols, step by step              *)
(***************************************************************************)
\* What the generators seeded with hash(symbol) draw for a symbol in this
\* process, and the statistics of its synthetic price history.
Seed(hist, option_draw, fundamental_draw) ==
    [hist |-> hist, option_draw |-> option_draw,
     fundamental_draw |-> fundamental_draw]

SeedFor(symbol) ==
    IF symbol = "WEAK"
    THEN Seed(HistoryStats(50, 220, FALSE), OptionDraw({6}, {}, 200, 100, 100),
              FundamentalDraw(30000, 10, 20, 100, 10))
    ELSE IF symbol = "BBB"
    THEN Seed(HistoryStats(25, 100, FALSE), OptionDraw({6}, {}, 200, 100, 100),
              FundamentalDraw(5000, 35, 150, 50, 45))
    ELSE Seed(HistoryStats(50, 220, FALSE), OptionDraw({6}, {}, 200, 100, 100),
              FundamentalDraw(5000, 35, 150, 200, 10))

\* score_symbol up to its await (lines 42-54): does it raise, and so return
\* None without asking the benchmark?
ScoringRaises(md) ==
    ExpectedReturnRaises(
        md, PressureAnalyze(md, DrawnChain(SeedFor(md.symbol).option_draw)))

\* the value of score_symbol(market_data, timeframe) once the benchmark has
\* answered btc_return
ScoreOf(md, btc_return) ==
    LET seed == SeedFor(md.symbol)
    IN CompositeScoreOf(
           md, IgnitionAnalyze(md, seed.hist),
           PressureAnalyze(md, DrawnChain(seed.option_draw)),
           FuelAnalyze(md, SyntheticFundamentals(md, seed.fundamental_draw)),
           btc_return)

\* slots of gather's result list in score_multiple_symbols
PendingScore == [kind |-> "pending", score |-> NoScore]
NoneScore == [kind |-> "none", score |-> NoScore]
ScoreResult(score) ==
    IF score.returned THEN [kind |-> "score", score |-> score] ELSE NoneScore

\* isinstance(result, CompositeScore), line 214
IsCompositeScore(result) == result.kind = "score"

\* the loop of lines 213-217 that stops at the first None
RECURSIVE CollectScores_stopsAtNone(_, _)
CollectScores_stopsAtNone(results, valid_scores) ==
    IF results = << >> \/ ~IsCompositeScore(Head(results)) THEN valid_scores
    ELSE CollectScores_stopsAtNone(Tail(results),
                                   Append(valid_scores, Head(results).score))

\* the loop of lines 213-217
RECURSIVE CollectScores(_, _)
CollectScores(results, valid_scores) ==
    IF results = << >> THEN valid_scores
    ELSE CollectScores(Tail(results),
                       IF IsCompositeScore(Head(results))
                       THEN Append(valid_scores, Head(results).score)
                       ELSE valid_scores)

\* what the benchmark's history download comes to while a scan runs
BenchmarkAnswers == {Raises, History(168, 20, 100)}

ScoresInFlight == (1..out.score_started) \ out.score_done

\* the locals of score_multiple_symbols(symbols_data, timeframe) at line 209
ScoringLocals(locals, symbols_data) ==
    [locals EXCEPT !.pc = "scoring", !.symbols_data = symbols_data,
                   !.score_results =
                       [i \in 1..Len(symbols_data) |-> PendingScore]]

\* The first step of the next score_symbol task: the three engines, the
\* weighted score and the expected return.  If that raises the task is done
\* with None, otherwise it awaits the benchmark.
StartScore ==
    /\ out.pc = "scoring"
    /\ out.score_started < Len(out.symbols_data)
    /\ LET i == out.score_started + 1
       IN out' = IF ScoringRaises(out.symbols_data[i])
                 THEN [out EXCEPT !.score_started = i,
                                  !.score_done = @ \cup {i},
                                  !.score_results = GatherPut(@, i, NoneScore)]
                 ELSE [out EXCEPT !.score_started = i]
    /\ UNCHANGED <<now, cache, call, ticks, input>>

\* get_expected_return answers the task for position i, which finishes (lines
\* 57-77); in any order among the tasks awaiting it
CompleteScore(i) ==
    /\ out.pc = "scoring"
    /\ i \in ScoresInFlight
    /\ \E o \in BenchmarkAnswers :
          LET r == GetExpectedReturnResult(cache, now, input.timeframe, o, 0)
          IN /\ cache' = r.cache
             /\ out' = [out EXCEPT
                   !.score_done = @ \cup {i},
                   !.score_results =
                       GatherPut(@, i, ScoreResult(ScoreOf(out.symbols_data[i],
                                                           r.ret))),
                   !.overtaken = @ \/ (\E j \in ScoresInFlight : j < i)]
    /\ UNCHANGED <<now, call, ticks, input>>

\* gather returns once every task is done; lines 211-219
ReturnScores ==
    /\ out.pc = "scoring"
    /\ out.score_done = 1..Len(out.symbols_data)
    /\ out' = [out EXCEPT !.pc = "scored",
                          !.valid_scores = CollectScores(out.score_results,
                                                         << >>)]
    /\ UNCHANGED <<now, cache, call, ticks, input>>

ScoredSnapshots ==
    { MarketData("AAA", 500, 1000000, 520, 480, 490),
      MarketData("AAB", 500, 1000000, 520, 480, 490),
      MarketData("BBB", 200, 600000, 230, 195, 200),
      MarketData("WEAK", 500, 1000000, 520, 480, 490),
      MarketData("ZERO", 0, 0, 0, 0, 0),
      MarketData("ZHI", 0, 100, 10, 5, 0) }

ScoreManyInputs ==
    { [listings |-> << >>, symbols_data |-> l, timeframe |-> TF(1, "h")] :
        l \in UNION { [1..n -> ScoredSnapshots] : n \in 0..MaxSymbols } }

InitScoreMany ==
    /\ InitBenchmark
    /\ input \in ScoreManyInputs
    /\ out = ScoringLocals(ScanLocals("scoring", 0), input.symbols_data)

NextScoreMany ==
    \/ StartScore
    \/ \E i \in 1..Len(out.symbols_data) : CompleteScore(i)
    \/ ReturnScores

SpecScoreMany == InitScoreMany /\ [][NextScoreMany]_vars

\* scoring this snapshot fails: the price is 0 and high and low are positive
ScoringFails(md) == md.price = 0 /\ md.high > 0 /\ md.low > 0

ScoredAlone(md) == ScoreOf(md, DefaultReturn)

\* C16: score_multiple_symbols returns, in input order, one CompositeScore for
\* each snapshot whose scoring succeeded, the one that snapshot gets when
\* scored alone, and none for those whose scoring failed; it does not raise.
C16_ScoringIsolation ==
    /\ ~out.raised
    /\ out.pc = "scored" =>
           LET succeeded == SelectSeq(input.symbols_data,
                                      LAMBDA md : ~ScoringFails(md))
           IN /\ Len(out.valid_scores) = Len(succeeded)
              /\ \A k \in 1..Len(succeeded) :
                     /\ out.valid_scores[k].symbol = succeeded[k].symbol
                     /\ out.valid_scores[k] = ScoredAlone(succeeded[k])

\* a failed scoring between two that succeeded
C16_Witness ==
    /\ out.pc = "scored"
    /\ Len(input.symbols_data) = 3
    /\ ScoringFails(input.symbols_data[2])
    /\ Len(out.valid_scores) = 2
    /\ out.valid_scores[1].symbol = input.symbols_data[1].symbol
    /\ out.valid_scores[2].symbol = input.symbols_data[3].symbol
    /\ out.valid_scores[1].symbol # out.valid_scores[2].symbol

(***************************************************************************)
(* execution/scanner.py: run_scan                                          *)
(***************************************************************************)
\* _estimate_timeframe with `>=` in the comparisons of lines 302-306
EstimateTimeframe_inclusive(probability) ==
    IF probability >= 800 THEN "20-60 minutes"
    ELSE IF probability >= 700 THEN "1-2 hours"
    ELSE IF probability >= 600 THEN "2-4 hours"
    ELSE "4+ hours"

\* _estimate_timeframe
EstimateTimeframe(probability) ==
    IF probability > 800 THEN "20-60 minutes"
    ELSE IF probability > 700 THEN "1-2 hours"
    ELSE IF probability > 600 THEN "2-4 hours"
    ELSE "4+ hours"

\* market_data_dict[symbol] of line 64: the last snapshot with that symbol
MarketDataDict(filtered_data, symbol) ==
    LET at == {i \in 1..Len(filtered_data) : filtered_data[i].symbol = symbol}
    IN filtered_data[CHOOSE i \in at : \A j \in at : j <= i]

\* create_scan_results: prices of the entry zone and the stop in 1e-3 dollar
CreateScanResults(scores, filtered_data) ==
    [i \in 1..Len(scores) |->
        LET market_data == MarketDataDict(filtered_data, scores[i].symbol)
        IN [symbol |-> scores[i].symbol,
            rank |-> i,
            score |-> scores[i].total_score,
            current_price |-> market_data.price,
            target_strike |-> scores[i].target_price,
            probability_reach |-> scores[i].probability_reach,
            expected_return |-> scores[i].expected_return,
            timeframe |-> EstimateTimeframe(scores[i].probability_reach),
            entry_low |-> market_data.price * 99,
            entry_high |-> market_data.price * 101,
            stop_loss |-> market_data.price * 95]]

\* run_scan letting the exception through
RunScanReturn_propagates(locals, exception, results) ==
    [locals EXCEPT !.pc = "returned",
                   !.raised = exception,
                   !.scan_results = IF exception THEN << >> ELSE results]

\* how run_scan ends: `return results` / `return []` inside the try, or the
\* except branch of lines 76-78 when an exception was raised
RunScanReturn(locals, exception, results) ==
    [locals EXCEPT !.pc = "returned",
                   !.raised = FALSE,
                   !.scan_results = IF exception THEN << >> ELSE results]

\* Lines 25-37: the symbol list is resolved.  input.resolve tells whether
\* that raises (a custom symbol that is no string, or the universe failing).
StartScan ==
    /\ out.pc = "start"
    /\ out' = IF input.resolve = "raises"
              THEN RunScanReturn([out EXCEPT !.scan_count = @ + 1], TRUE, << >>)
              ELSE [out EXCEPT !.scan_count = @ + 1, !.pc = "creating"]
    /\ UNCHANGED <<now, cache, call, ticks, input>>

\* the snapshots of the fetched MarketData objects
SnapshotsOf(market_data) == [i \in 1..Len(market_data) |-> market_data[i].md]

\* Lines 40-56: no data ends the scan; the basic filters raise TypeError on a
\* price of None; no survivor ends the scan; else the scoring tasks are made.
FilterAndScore ==
    /\ out.pc = "fetched"
    /\ LET malformed == \E i \in 1..Len(out.market_data) :
                            out.market_data[i].kind = "malformed"
           filtered_data == ApplyBasicFilters(SnapshotsOf(out.market_data))
       IN out' = IF out.market_data = << >> THEN RunScanReturn(out, FALSE, << >>)
                 ELSE IF malformed THEN RunScanReturn(out, TRUE, << >>)
                 ELSE IF filtered_data = << >>
                      THEN RunScanReturn(out, FALSE, << >>)
                 ELSE ScoringLocals(out, filtered_data)
    /\ UNCHANGED <<now, cache, call, ticks, input>>

\* Lines 57-74: ranking, result construction and return
RankAndReturn ==
    /\ out.pc = "scored"
    /\ LET top_scores == FilterAndRankResult(out.valid_scores,
                                             MIN_SCORE_THRESHOLD)
       IN out' = RunScanReturn(out, FALSE,
                               CreateScanResults(top_scores, out.symbols_data))
    /\ UNCHANGED <<now, cache, call, ticks, input>>

ScannedSnapshots ==
    { MarketData("AAA", 500, 1000000, 520, 480, 490),
      MarketData("AAB", 500, 1000000, 520, 480, 490),
      MarketData("BBB", 200, 600000, 230, 195, 200),
      MarketData("WEAK", 500, 1000000, 520, 480, 490),
      MarketData("PENNY", 10, 1000000, 11, 9, 10) }

ScanListings ==
    { Listing(md.symbol, Snapshot(md)) : md \in ScannedSnapshots }
    \cup { Listing("AAA", FetchFailure), Listing("AAB", Absent),
           Listing("BBB", Malformed(MarketData("BBB", 0, 0, 0, 0, 0))) }

ScanInputs ==
    { [listings |-> l, resolve |-> "ok", timeframe |-> TF(1, "h")] :
        l \in UNION { [1..n -> ScanListings] : n \in 0..MaxSymbols } }
    \cup
    { [listings |-> <<l>>, resolve |-> "raises", timeframe |-> TF(1, "h")] :
        l \in ScanListings }

InitScan ==
    /\ InitBenchmark
    /\ input \in ScanInputs
    /\ out = ScanLocals("start", NumSymbols)

\* the symbol lists scanned fit one batch, so no pacing delay is awaited
NextScan ==
    \/ StartScan
    \/ CreateBatch
    \/ StartFetch
    \/ \E i \in 1..NumSymbols : CompleteFetch(i)
    \/ ReturnMarketData
    \/ FilterAndScore
    \/ StartScore
    \/ \E i \in 1..Len(out.symbols_data) : CompleteScore(i)
    \/ ReturnScores
    \/ RankAndReturn

SpecScan == InitScan /\ [][NextScan]_vars

Returned == out.pc = "returned"

\* an exception was raised on the way: by the symbol resolution, or by the
\* basic filters on a fetched snapshot whose price is None
ExceptionRaised ==
    \/ input.resolve = "raises"
    \/ \E i \in 1..NumSymbols : input.listings[i].result.kind = "malformed"

\* C15: run_scan never raises to its caller, and returns the empty list when
\* an exception is raised on its way.
C15_ScanFailSoft ==
    /\ ~out.raised
    /\ (Returned /\ ExceptionRaised) => out.scan_results = << >>

\* a scan ended by the TypeError of a malformed snapshot, after a fetch of
\* another symbol had succeeded
C15_Witness ==
    /\ Returned
    /\ input.resolve = "ok"
    /\ \E i \in 1..NumSymbols : input.listings[i].result.kind = "malformed"
    /\ \E i \in 1..NumSymbols : input.listings[i].symbol = "AAA"
                                /\ input.listings[i].result.kind = "data"
    /\ out.scan_results = << >>

\* the result of the scan computed one symbol after the other
SequentialScan ==
    LET fetched == SelectSeq([i \in 1..NumSymbols |-> input.listings[i].result],
                             IsData)
        filtered_data == SelectSeq(SnapshotsOf(fetched), PassesBasicFilters)
        scored == [i \in 1..Len(filtered_data) |->
                       ScoreOf(filtered_data[i], DefaultReturn)]
        scores == SelectSeq(scored, LAMBDA sc : sc.returned)
    IN IF ExceptionRaised THEN << >>
       ELSE CreateScanResults(
                FilterAndRankResult(scores, MIN_SCORE_THRESHOLD), filtered_data)

\* C18: for a fixed symbol list, fixed fetch outcomes and a fixed benchmark
\* value, run_scan returns the same ranked result, that of the scan done one
\* symbol after the other, for every completion order of the fetch tasks and
\* of the scoring tasks.
C18_CompletionOrderIndependence ==
    Returned => out.scan_results = SequentialScan

\* two equally ranked symbols returned in list order although a later task
\* completed before an earlier one
C18_Witness ==
    /\ Returned
    /\ out.overtaken
    /\ Len(out.scan_results) >= 2
    /\ out.scan_results[1].score = out.scan_results[2].score
    /\ out.scan_results[1].symbol # out.scan_results[2].symbol

(***************************************************************************)
(* scoring/composite.py: _estimate_price_move on a snapshot and a fuel     *)
(* signal                                                                  *)
(***************************************************************************)
\* snapshots whose daily range is below, at and above 15% of the price, and
\* snapshots without a high, a low or a price
MoveSnapshots ==
    Snapshots
    \cup { MarketData("RNG", 200, 600000, 200 + up, 200 - down, 200) :
               up \in {0, 10, 15, 16, 300}, down \in {0, 15, 200} }

MoveVolumes == {0, 100, 200, 201, 300, 301, 1000, 100000}
MoveSqueezes == {0, 60, 61, 70, 80, 81, 100}

MoveInputs ==
    { [md |-> md, fuel |-> FuelWith(sq, rv)] :
          md \in MoveSnapshots, rv \in MoveVolumes, sq \in MoveSqueezes }

\* line 174 divides the range by the price
EstimatePriceMoveRaises(md) == md.high > 0 /\ md.low > 0 /\ md.price = 0

\* CompositeScorer._estimate_price_move(market_data, fuel)
EstimateMove ==
    /\ out = NotRun
    /\ out' = IF EstimatePriceMoveRaises(input.md)
              THEN [op |-> "estimate_price_move", raised |-> TRUE, move |-> 0]
              ELSE [op |-> "estimate_price_move", raised |-> FALSE,
                    move |-> EstimatePriceMove(input.md, input.fuel)]
    /\ UNCHANGED <<now, cache, call, ticks, input>>

InitMove ==
    /\ InitBenchmark
    /\ input \in MoveInputs
    /\ out = NotRun

NextMove == EstimateMove

SpecMove == InitMove /\ [][NextMove]_vars

MoveEstimated == out.op = "estimate_price_move" /\ ~out.raised

\* C21: for every snapshot and fuel signal (any relative volume, daily range
\* and squeeze score) the value _estimate_price_move returns never exceeds
\* 0.50 (2000 in 1/4000).
C21_MoveCap == MoveEstimated => out.move <= 2000

\* the largest move the factors produce: relative volume above 3, a daily
\* range above 15% and a squeeze score above 80 give 0.05 x 1.5 x 1.3 x 2.0
C21_Witness ==
    /\ MoveEstimated
    /\ input.fuel.relative_volume > 300
    /\ (input.md.high - input.md.low) * 100 > 15 * input.md.price
    /\ input.fuel.short_squeeze_score > 80000
    /\ out.move = 780

(***************************************************************************)
(* scoring/composite.py: _calculate_combination_bonus on three signals     *)
(***************************************************************************)
BonusScores == {0, 70000, 70001, 100000}
BonusProbabilities == {0, 700, 701, 1000}
DealerFlows == {"bullish", "bearish", "neutral"}
BonusSnapshot == MarketData("AAA", 500, 1000000, 520, 480, 490)

BonusInputs ==
    { [ignition |-> [NeutralIgnition EXCEPT !.score = si,
                                            !.vwap_momentum = vm,
                                            !.expansion_energy = ee],
       pressure |-> [NeutralPressure(BonusSnapshot) EXCEPT
                         !.score = sp, !.probability_reach = pr,
                         !.dealer_flow = df],
       fuel |-> [NeutralFuel EXCEPT !.score = sf, !.low_float = lf,
                                    !.high_short_interest = hs,
                                    !.volume_surge = vs]] :
          si \in BonusScores, sp \in BonusScores, sf \in BonusScores,
          vm \in BOOLEAN, ee \in BOOLEAN, pr \in BonusProbabilities,
          df \in DealerFlows, lf \in BOOLEAN, hs \in BOOLEAN,
          vs \in BOOLEAN }

\* CompositeScorer._calculate_combination_bonus(ignition, pressure, fuel)
CombinationBonus ==
    /\ out = NotRun
    /\ out' = [op |-> "combination_bonus",
               bonus |-> CalculateCombinationBonus(
                             input.ignition, input.pressure, input.fuel)]
    /\ UNCHANGED <<now, cache, call, ticks, input>>

InitBonus ==
    /\ InitBenchmark
    /\ input \in BonusInputs
    /\ out = NotRun

NextBonus == CombinationBonus

SpecBonus == InitBonus /\ [][NextBonus]_vars

BonusCalculated == out.op = "combination_bonus"

\* the sub-scores above 70
StrongSignals ==
    { s \in {"ignition", "pressure", "fuel"} : input[s].score > 70000 }

\* C22: _calculate_combination_bonus returns (15 if all three sub-scores
\* exceed 70, otherwise 8 if at least two do, otherwise 0) + (5 if ignition
\* vwap_momentum and probability_reach > 0.7) + (8 if fuel low_float and
\* high_short_interest and dealer_flow = "bullish") + (5 if ignition
\* expansion_energy and fuel volume_surge); the triple and the double
\* confirmation are never both applied.
C22_CombinationBonus ==
    BonusCalculated =>
        \E confirmation \in {0, 8, 15}, momentum \in {0, 5},
           squeeze \in {0, 8}, energy \in {0, 5} :
            /\ confirmation = 15 <=> Cardinality(StrongSignals) = 3
            /\ confirmation = 8 <=> Cardinality(StrongSignals) = 2
            /\ momentum = 5 <=> (input.ignition.vwap_momentum
                                 /\ input.pressure.probability_reach > 700)
            /\ squeeze = 8 <=> (input.fuel.low_float
                                /\ input.fuel.high_short_interest
                                /\ input.pressure.dealer_flow = "bullish")
            /\ energy = 5 <=> (input.ignition.expansion_energy
                               /\ input.fuel.volume_surge)
            /\ out.bonus = confirmation + momentum + squeeze + energy

\* all three sub-scores above 70 and every specific combination present:
\* 15 + 5 + 8 + 5
C22_Witness ==
    /\ BonusCalculated
    /\ Cardinality(StrongSignals) = 3
    /\ input.ignition.vwap_momentum /\ input.pressure.probability_reach > 700
    /\ input.fuel.low_float /\ input.fuel.high_short_interest
    /\ input.pressure.dealer_flow = "bullish"
    /\ input.ignition.expansion_energy /\ input.fuel.volume_surge
    /\ out.bonus = 33

(***************************************************************************)
(* signals/fuel.py: _calculate_squeeze_score on fundamentals and a         *)
(* relative volume                                                         *)
(***************************************************************************)
SqueezeFloats ==
    {0, 1000, 4999, 5000, 5001, 9999, 10000, 10001, 19999, 20000, 20001, 50000}
SqueezeShorts == {0, 15, 16, 20, 21, 30, 31}
SqueezeBorrows == {25, 26, 50, 51, 100, 101}
SqueezeVolumes == {100, 200, 201, 300, 301, 500, 501}
SqueezeInsiders == {30, 31, 40, 41}

SqueezeInputs ==
    { [fd |-> FundamentalData(fl, sh, bo, 1000000, ins, TRUE),
       relative_volume |-> rv] :
          fl \in SqueezeFloats, sh \in SqueezeShorts, bo \in SqueezeBorrows,
          ins \in SqueezeInsiders, rv \in SqueezeVolumes }

\* FuelEngine._calculate_squeeze_score(fundamental_data, relative_volume)
SqueezeScore ==
    /\ out = NotRun
    /\ out' = [op |-> "squeeze_score",
               score |-> CalculateSqueezeScore(input.fd,
                                               input.relative_volume)]
    /\ UNCHANGED <<now, cache, call, ticks, input>>

InitSqueeze ==
    /\ InitBenchmark
    /\ input \in SqueezeInputs
    /\ out = NotRun

NextSqueeze == SqueezeScore

SpecSqueeze == InitSqueeze /\ [][NextSqueeze]_vars

SqueezeCalculated == out.op = "squeeze_score"

\* the tier a value falls in: tiers is a sequence of <<threshold, points>>
\* from the highest threshold down, a value above a threshold earns the points
AboveTier(tiers, value) ==
    IF \E k \in 1..Len(tiers) : value > tiers[k][1]
    THEN tiers[CHOOSE k \in 1..Len(tiers) :
                   /\ value > tiers[k][1]
                   /\ \A j \in 1..(k - 1) : value <= tiers[j][1]][2]
    ELSE 0

\* the short, borrow, volume and insider tiers as stated
StatedOtherTiers ==
    AboveTier(<< <<30, 25>>, <<20, 20>>, <<15, 10>> >>,
              input.fd.short_percent)
    + AboveTier(<< <<100, 20>>, <<50, 15>>, <<25, 5>> >>, input.fd.borrow_fee)
    + AboveTier(<< <<500, 15>>, <<300, 10>>, <<200, 5>> >>,
                input.relative_volume)
    + AboveTier(<< <<40, 10>>, <<30, 5>> >>, input.fd.insider_ownership)

\* the float tier with inclusive boundaries
InclusiveFloatTier ==
    IF input.fd.float_shares <= 5000 THEN 30
    ELSE IF input.fd.float_shares <= 10000 THEN 25
    ELSE IF input.fd.float_shares <= 20000 THEN 15 ELSE 0

\* the float tier with exclusive boundaries: 15 from 20,000,000 down, 25 from
\* 10,000,000 down, 30 from 5,000,000 down, each bound excluded
ExclusiveFloatTier ==
    AboveTier(<< <<-5000, 30>>, <<-10000, 25>>, <<-20000, 15>> >>,
              -input.fd.float_shares)

\* C23 as stated: _calculate_squeeze_score equals min(100, float tier + short
\* tier + borrow tier + volume tier + insider tier) with float tier 30 if
\* float <= 5,000,000, else 25 if <= 10,000,000, else 15 if <= 20,000,000
\* (boundaries inclusive); short% >30:25, >20:20, >15:10; borrow fee >100:20,
\* >50:15, >25:5; relative volume >5:15, >3:10, >2:5; insider ownership
\* >40:10, >30:5.
C23_SqueezeTiersStated ==
    SqueezeCalculated =>
        out.score = 1000 * Min(100, InclusiveFloatTier + StatedOtherTiers)

\* C23 amended: the same sum with the float boundaries exclusive: 30 if float
\* < 5,000,000, else 25 if < 10,000,000, else 15 if < 20,000,000, else 0.
C23_SqueezeTiers ==
    SqueezeCalculated =>
        out.score = 1000 * Min(100, ExclusiveFloatTier + StatedOtherTiers)

\* a float of exactly 5,000,000 shares earns the 25 of the second tier
C23_Witness ==
    /\ SqueezeCalculated
    /\ input.fd.float_shares = 5000
    /\ input.fd.short_percent = 31 /\ input.fd.borrow_fee = 101
    /\ input.relative_volume = 501 /\ input.fd.insider_ownership = 41
    /\ out.score = 95000

(***************************************************************************)
(* scoring/composite.py: create_scan_results on a ranked list and the      *)
(* snapshots that passed the basic filters                                 *)
(***************************************************************************)
\* a CompositeScore with the fields create_scan_results reads
RankedScore(symbol, probability) ==
    [NoScore EXCEPT !.returned = TRUE, !.symbol = symbol,
                    !.total_score = 8000000, !.btc_benchmark_passed = TRUE,
                    !.expected_return = [num |-> 300, den |-> 1],
                    !.btc_expected_return = DefaultReturn,
                    !.probability_reach = probability,
                    !.target_price = 6000000, !.risk_reward_ratio = 600]

ResultProbabilities == {600, 601, 700, 701, 800, 801, 1000}

\* filtered_data of run_scan: the second list holds two snapshots of one
\* symbol (a symbol listed twice, fetched at two prices)
FilteredLists ==
    { << MarketData("AAA", 500, 1000000, 520, 480, 490),
         MarketData("BBB", 200, 600000, 230, 195, 200) >>,
      << MarketData("AAA", 500, 1000000, 520, 480, 490),
         MarketData("BBB", 200, 600000, 230, 195, 200),
         MarketData("AAA", 510, 1000000, 520, 480, 490) >> }

ResultInputs ==
    { [top_scores |-> s, filtered_data |-> f] :
        s \in UNION { [1..n -> { RankedScore(sym, p) :
                                   sym \in {"AAA", "BBB"},
                                   p \in ResultProbabilities }] :
                      n \in 0..MAX_SYMBOLS_PER_SCAN },
        f \in FilteredLists }

\* Lines 63-65 of run_scan: the dict of the snapshots by symbol and
\* create_scan_results on it
CreateResults ==
    /\ out = NotRun
    /\ out' = [op |-> "create_scan_results",
               results |-> CreateScanResults(input.top_scores,
                                             input.filtered_data)]
    /\ UNCHANGED <<now, cache, call, ticks, input>>

InitResults ==
    /\ InitBenchmark
    /\ input \in ResultInputs
    /\ out = NotRun

NextResults == CreateResults

SpecResults == InitResults /\ [][NextResults]_vars

ResultsCreated == out.op = "create_scan_results"

\* the label stated for a probability
StatedTimeframe(probability) ==
    CHOOSE label \in {"20-60 minutes", "1-2 hours", "2-4 hours", "4+ hours"} :
        /\ label = "20-60 minutes" <=> probability > 800
        /\ label = "1-2 hours" <=> (probability > 700 /\ probability <= 800)
        /\ label = "2-4 hours" <=> (probability > 600 /\ probability <= 700)

\* the prices (tenths of a dollar) of the snapshots of a symbol
SnapshotPrices(symbol) ==
    { input.filtered_data[k].price :
        k \in { j \in 1..Len(input.filtered_data) :
                  input.filtered_data[j].symbol = symbol } }

\* C25: create_scan_results returns one ScanResult per ranked CompositeScore
\* in the same order, with rank = position (1..n), entry zone = (price x 0.99,
\* price x 1.01), stop-loss = price x 0.95 and the timeframe label "20-60
\* minutes" if probability > 0.8, else "1-2 hours" if > 0.7, else "2-4 hours"
\* if > 0.6, else "4+ hours", where price is the snapshot price of that
\* result's symbol.
C25_ResultConstruction ==
    ResultsCreated =>
        /\ Len(out.results) = Len(input.top_scores)
        /\ \A i \in 1..Len(out.results) :
            LET result == out.results[i]
                score == input.top_scores[i]
            IN /\ result.symbol = score.symbol
               /\ result.score = score.total_score
               /\ result.rank = i
               /\ result.current_price \in SnapshotPrices(score.symbol)
               /\ result.entry_low = result.current_price * 99
               /\ result.entry_high = result.current_price * 101
               /\ result.stop_loss = result.current_price * 95
               /\ result.timeframe = StatedTimeframe(score.probability_reach)

\* three results, with probabilities on the boundaries 0.8, 0.7 and 0.6
C25_Witness ==
    /\ ResultsCreated
    /\ Len(out.results) = 3
    /\ input.top_scores[1].probability_reach = 800
    /\ input.top_scores[2].probability_reach = 700
    /\ input.top_scores[3].probability_reach = 600
    /\ out.results[1].timeframe = "1-2 hours"
    /\ out.results[2].timeframe = "2-4 hours"
    /\ out.results[3].timeframe = "4+ hours"
    /\ out.results[3].rank = 3

(***************************************************************************)
(* execution/scanner.py: continuous_scan.  out holds the position in the   *)
(* loop, the loop variable, the number of run_scan calls made, what the    *)
(* last call gave and how the coroutine ended.                             *)
(***************************************************************************)
MaxIterations == 3
retry_delay == 30                          \* line 169, seconds

\* What `await self.run_scan()` gives: an empty list, a list of candidates,
\* or an exception run_scan's own handler does not absorb (one raised
\* outside its try, or by the handler itself).
ScanOutcomes == {"empty", "candidates", "raises"}

ContinuousLocals ==
    [pc |-> "loop", iteration |-> 0, calls |-> 0, result |-> "none",
     retries |-> 0, interrupted |-> FALSE, escaped |-> FALSE]

\* Line 156: the format specification of the f-string is the text after the
\* first colon, `.2f if result.target_strike else 0:.2f`, which format()
\* rejects with ValueError for every candidate logged.
LogCandidatesRaises(result) == result = "candidates"

\* line 148: the next value of range(max_iterations), or the end of the loop
NextIteration ==
    /\ out.pc = "loop"
    /\ out' = IF out.iteration < input.max_iterations
              THEN [out EXCEPT !.pc = "scanning", !.calls = @ + 1]
              ELSE [out EXCEPT !.pc = "done"]
    /\ UNCHANGED <<now, cache, call, ticks, input>>

\* Lines 150-169: run_scan returns or raises, the candidates are logged, and
\* the loop goes on to the interval sleep, to the next iteration (no sleep
\* after the last one) or to the handler of line 167.
ScanReturns(result) ==
    /\ out.pc = "scanning"
    /\ out' = IF result = "raises" \/ LogCandidatesRaises(result)
              THEN [out EXCEPT !.pc = "retry_delay", !.result = result,
                               !.retries = @ + 1]
              ELSE IF out.iteration < input.max_iterations - 1
                   THEN [out EXCEPT !.pc = "sleeping", !.result = result]
                   ELSE [out EXCEPT !.pc = "loop", !.result = result,
                                    !.iteration = @ + 1]
    /\ UNCHANGED <<now, cache, call, ticks, input>>

\* line 163: asyncio.sleep(interval_minutes * 60) returns
IntervalElapses ==
    /\ out.pc = "sleeping"
    /\ now' = now + input.interval_minutes * 60
    /\ out' = [out EXCEPT !.pc = "loop", !.iteration = @ + 1]
    /\ UNCHANGED <<cache, call, ticks, input>>

\* line 169: asyncio.sleep(30) returns
RetryDelayElapses ==
    /\ out.pc = "retry_delay"
    /\ now' = now + retry_delay
    /\ out' = [out EXCEPT !.pc = "loop", !.iteration = @ + 1]
    /\ UNCHANGED <<cache, call, ticks, input>>

\* KeyboardInterrupt raised at the pending await.  Lines 165-166 catch it in
\* the try body; the sleep of line 169 is inside the handler of line 167, so
\* there it leaves the coroutine.
Interrupt ==
    /\ out.pc \in {"scanning", "sleeping", "retry_delay"}
    /\ out' = IF out.pc = "retry_delay"
              THEN [out EXCEPT !.pc = "raised", !.interrupted = TRUE,
                               !.escaped = TRUE]
              ELSE [out EXCEPT !.pc = "done", !.interrupted = TRUE]
    /\ UNCHANGED <<now, cache, call, ticks, input>>

ContinuousInputs ==
    { [max_iterations |-> m, interval_minutes |-> i] :
        m \in 0..MaxIterations, i \in {1, 5} }

InitContinuous ==
    /\ InitBenchmark
    /\ input \in ContinuousInputs
    /\ out = ContinuousLocals

NextContinuous ==
    \/ NextIteration
    \/ \E result \in ScanOutcomes : ScanReturns(result)
    \/ IntervalElapses
    \/ RetryDelayElapses
    \/ Interrupt

SpecContinuous == InitContinuous /\ [][NextContinuous]_vars

\* C26: continuous_scan invokes run_scan at most max_iterations times and
\* ends after them; the error-retry path (the short delay of the handler) is
\* taken only when an iteration actually failed; an external interruption
\* ends the loop without an exception escaping.
C26_ContinuousScan ==
    /\ out.calls <= input.max_iterations
    /\ out.pc = "done" =>
           (out.interrupted \/ out.iteration = input.max_iterations)
    /\ out.pc = "retry_delay" => out.result = "raises"
    /\ out.interrupted => ~out.escaped

\* an iteration whose scan returned candidates is in the retry delay
C26_RetryAfterCandidates ==
    /\ out.pc = "retry_delay"
    /\ out.result = "candidates"
    /\ out.retries = 1

(***************************************************************************)
(* api/server.py: the /scan endpoint.  The requests are coroutines of one  *)
(* event loop: each runs from one await to the next without interruption.  *)
(* out.threshold is config.MIN_SCORE_THRESHOLD, out.requests the locals of *)
(* each request.                                                           *)
(***************************************************************************)
MaxRequests == 2
NoOverride == 0               \* request.min_score is None
MinScores == {NoOverride, 80, 90}

RequestLocals ==
    [pc |-> "received", original_threshold |-> NoOverride,
     used_threshold |-> NoOverride]

ServerState(n) ==
    [threshold |-> MIN_SCORE_THRESHOLD,
     requests |-> [i \in 1..n |-> RequestLocals]]

Requests == 1..Len(input)

\* Lines 120-127: the override is applied and run_scan starts, up to its
\* first await
StartRequest(i) ==
    /\ out.requests[i].pc = "received"
    /\ out' = IF input[i] # NoOverride
              THEN [out EXCEPT !.threshold = input[i],
                               !.requests[i].pc = "scanning",
                               !.requests[i].original_threshold =
                                   out.threshold]
              ELSE [out EXCEPT !.requests[i].pc = "scanning"]
    /\ UNCHANGED <<now, cache, call, ticks, input>>

\* composite.py lines 231-234, after the awaits of run_scan: filter_and_rank
\* reads the threshold
RankRequest(i) ==
    /\ out.requests[i].pc = "scanning"
    /\ out' = [out EXCEPT !.requests[i].pc = "ranked",
                          !.requests[i].used_threshold = out.threshold]
    /\ UNCHANGED <<now, cache, call, ticks, input>>

\* Lines 127-134: run_scan has returned and the saved value is written back
CompleteRequest(i) ==
    /\ out.requests[i].pc = "ranked"
    /\ out' = IF input[i] # NoOverride
              THEN [out EXCEPT !.threshold =
                                   out.requests[i].original_threshold,
                               !.requests[i].pc = "completed"]
              ELSE [out EXCEPT !.requests[i].pc = "completed"]
    /\ UNCHANGED <<now, cache, call, ticks, input>>

ServerInputs == UNION { [1..n -> MinScores] : n \in 1..MaxRequests }

InitServer ==
    /\ InitBenchmark
    /\ input \in ServerInputs
    /\ out = ServerState(Len(input))

NextServer ==
    \/ \E i \in Requests : StartRequest(i)
    \/ \E i \in Requests : RankRequest(i)
    \/ \E i \in Requests : CompleteRequest(i)

SpecServer == InitServer /\ [][NextServer]_vars

AllCompleted == \A i \in Requests : out.requests[i].pc = "completed"

\* C27: for any number of /scan requests, each with or without a min_score
\* override and interleaved in any way at the await points of run_scan, once
\* all requests have completed config.MIN_SCORE_THRESHOLD equals the value
\* it had before the first request started.
C27_ThresholdRestored ==
    AllCompleted => out.threshold = MIN_SCORE_THRESHOLD

\* two overriding requests have completed and the override of the first is
\* left in the configuration
C27_OverrideLeft ==
    /\ AllCompleted
    /\ Len(input) = 2
    /\ input[1] = 80 /\ input[2] = 90
    /\ out.threshold = 80

(***************************************************************************)
(* scoring/composite.py: score_multiple_symbols while the clock runs.      *)
(* Each score_symbol task asks the benchmark on its own (line 56); the     *)
(* tasks run one after the other, and time passes between them.            *)
(***************************************************************************)
ScanClockSteps == {1, 300}

TimedSnapshots ==
    { MarketData("AAA", 500, 1000000, 520, 480, 490),
      MarketData("BBB", 200, 600000, 230, 195, 200),
      MarketData("ZHI", 0, 100, 10, 5, 0) }

TimedInputs ==
    { [listings |-> << >>, symbols_data |-> l, timeframe |-> tf] :
        l \in UNION { [1..n -> TimedSnapshots] : n \in 0..MaxSymbols },
        tf \in {TF(1, "h")} }

InitScoreTimed ==
    /\ InitBenchmark
    /\ input \in TimedInputs
    /\ out = ScoringLocals(ScanLocals("scoring", 0), input.symbols_data)

NextScoreTimed ==
    \/ StartScore
    \/ \E i \in 1..Len(out.symbols_data) : CompleteScore(i)
    \/ ReturnScores
    \/ \E d \in ScanClockSteps : Tick(d)

SpecScoreTimed == InitScoreTimed /\ [][NextScoreTimed]_vars

\* the CompositeScores produced so far by the tasks of the call
ScoresProduced ==
    { out.score_results[i].score :
        i \in { k \in 1..Len(out.score_results) :
                  IsCompositeScore(out.score_results[k]) } }

RepeatedListings ==
    { Listing("AAA", Snapshot(MarketData("AAA", 500, 1000000, 520, 480, 490))),
      Listing("AAA", Snapshot(MarketData("AAA", 540, 1000000, 545, 480, 490))),
      Listing("AAB", Snapshot(MarketData("AAB", 500, 1000000, 520, 480, 490))),
      Listing("WEAK", Snapshot(MarketData("WEAK", 500, 1000000, 520, 480, 490))),
      Listing("AAA", FetchFailure) }

RepeatedInputs ==
    { [listings |-> l, resolve |-> "ok", timeframe |-> TF(1, "h")] :
        l \in UNION { [1..n -> RepeatedListings] : n \in 0..MaxSymbols } }

InitScanRepeated ==
    /\ InitBenchmark
    /\ input \in RepeatedInputs
    /\ out = ScanLocals("start", NumSymbols)

SpecScanRepeated == InitScanRepeated /\ [][NextScan]_vars

\* C29: every ScanResult returned by run_scan has a target_strike that is
\* present and strictly greater than current_price, and an expected_return
\* strictly greater than 0.
C29_UpsideOnly ==
    Returned =>
        \A k \in 1..Len(out.scan_results) :
            /\ out.scan_results[k].target_strike
                   > out.scan_results[k].current_price * 1000
            /\ out.scan_results[k].expected_return.num > 0

\* the second half of C29, on score_symbol: a score whose target is at or
\* below the price of the snapshot it was computed from does not pass the
\* benchmark gate of line 58
DownsideFailsGate ==
    (ScoreSymbolDone /\ out.score.returned
     /\ out.score.target_price <= input.md.price * 1000)
        => ~out.score.btc_benchmark_passed

DownsideScored ==
    /\ ScoreSymbolDone /\ out.score.returned
    /\ out.score.target_price <= input.md.price * 1000
    /\ out.score.target_price > 0

\* a returned result whose target is below its current price
C29_TargetBelowPrice ==
    /\ Returned
    /\ Len(out.scan_results) >= 1
    /\ out.scan_results[1].target_strike
           < out.scan_results[1].current_price * 1000

\* C30: for any symbol list passed to run_scan the returned ranked list
\* contains each symbol at most once.
C30_UniqueSymbols ==
    Returned =>
        \A j \in 1..Len(out.scan_results), k \in 1..Len(out.scan_results) :
            out.scan_results[j].symbol = out.scan_results[k].symbol => j = k

\* a returned list that holds one symbol twice
C30_SymbolTwice ==
    /\ Returned
    /\ Len(out.scan_results) = 2
    /\ out.scan_results[1].symbol = "AAA"
    /\ out.scan_results[2].symbol = "AAA"

====
